---- MODULE Spec2Model ----
(***************************************************************************)
(* Model of requestform-by-jotform: the extractor and grouper of           *)
(* src/src/jotform-parser.ts, the payload decoder and the reconciliation   *)
(* pass (applyDataToForm) of src/src/form-modifier.ts and of its later     *)
(* revision src/unnamed/part_000, and the timer callback of src/src/main.ts *)
(* that composes them.                                                     *)
(*                                                                         *)
(* Strings are sequences of characters; a character is a TLA+ string that  *)
(* names it.  The Japanese characters of the source are written by their   *)
(* readings: "ri","ku","e","su","to","nai","you" is the label of the       *)
(* request-content field, "ji" the hour unit, "fun" the minute unit.       *)
(***************************************************************************)
EXTENDS Integers, Sequences, FiniteSets, TLC

VARIABLES
    document,      \* the live document: the nodes under #jotform-container
    jotformDoc,    \* the parsed jotform.html, never mutated (main.ts:71)
    variant,       \* which revision of form-modifier is linked in
    search,        \* the 'data' query parameter of window.location.search
    queryData,     \* the decoded payload (main.ts:90)
    allFields,     \* the flat field list (jotform-parser.ts:220)
    formGroups,    \* formStructure.fieldGroups (jotform-parser.ts:221)
    index,         \* index of the forEach callback of applyDataToForm
    keyPos,        \* position of the loop over groupData.fields, 0 outside
    raised,        \* an exception left applyDataToForm
    pc,            \* position in initializeForm and its timer callback
    scripts,       \* scriptsToLoad: the script elements of jotform.html
    scriptPos,     \* scripts the running loop of main.ts:36-56 has passed
    log,           \* the scripts loaded and executed so far, in order
    calls          \* invocations of getJotformStructure, applyDataToForm

vars == <<document, jotformDoc, variant, search, queryData, allFields,
          formGroups, index, keyPos, raised, pc, scripts, scriptPos, log,
          calls>>

(***************************************************************************)
(* Strings                                                                 *)
(***************************************************************************)

\* the characters matched by \s in the regular expressions of the source
WhiteSpace == {" ", "\t", "\n", "u3000"}

Digits == {"0", "1", "2", "3", "4", "5", "6", "7", "8", "9"}

\* no string holds this character: the one-character string Null stands
\* for the JavaScript value null where a string is expected
Null == <<"<null>">>

RECURSIVE StripWhitespace(_)
\* s.replace(/\s/g, '')
StripWhitespace(s) ==
    IF s = <<>> THEN <<>>
    ELSE IF Head(s) \in WhiteSpace THEN StripWhitespace(Tail(s))
    ELSE <<Head(s)>> \o StripWhitespace(Tail(s))

RECURSIVE TrimLeft(_)
TrimLeft(s) ==
    IF s # <<>> /\ Head(s) \in WhiteSpace THEN TrimLeft(Tail(s)) ELSE s

RECURSIVE TrimRight(_)
TrimRight(s) ==
    IF s # <<>> /\ s[Len(s)] \in WhiteSpace
    THEN TrimRight(SubSeq(s, 1, Len(s) - 1)) ELSE s

\* s.trim()
Trim(s) == TrimRight(TrimLeft(s))

\* s.startsWith(p), the test of the attribute selector [id^="p"]
IsPrefix(p, s) == Len(p) <= Len(s) /\ SubSeq(s, 1, Len(p)) = p

\* s.endsWith(p), the test of the attribute selector [name$="p"]
IsSuffix(p, s) ==
    Len(p) <= Len(s) /\ SubSeq(s, Len(s) - Len(p) + 1, Len(s)) = p

Contains(s, c) == \E i \in 1..Len(s) : s[i] = c

RECURSIVE SplitFrom(_, _, _)
\* the parts of s split on the character sep, cur being the part under way
SplitFrom(s, sep, cur) ==
    IF s = <<>> THEN <<cur>>
    ELSE IF Head(s) = sep THEN <<cur>> \o SplitFrom(Tail(s), sep, <<>>)
    ELSE SplitFrom(Tail(s), sep, Append(cur, Head(s)))

\* s.split(sep) for a one-character separator
Split(s, sep) == SplitFrom(s, sep, <<>>)

(***************************************************************************)
(* The document.  A node is one element the extractor or the pass looks    *)
(* up by id: a list item of a form section (li), or an element outside the *)
(* sections such as the submit block.  Of a node's descendants the model   *)
(* keeps the label element's text, the .form-collapse-mid element's text,  *)
(* the button's text, and the input, select and textarea elements in       *)
(* document order (ctls).  A control with item = TRUE is the one input of  *)
(* a .form-radio-item element.  Null for label, mid or btn: the node has   *)
(* no such descendant.                                                     *)
(***************************************************************************)

\* the first of a set of positions, 0 when it is empty: querySelector and
\* find return the first match in document or list order
First(S) == IF S = {} THEN 0 ELSE CHOOSE i \in S : \A j \in S : i <= j

\* field.type of an element without data-type (dataset.type || null)
NoType == "null"

\* the indices of the candidate list items:
\* document.querySelectorAll('.form-section > li, .form-section-closed > li')
SectionItems(doc) == {i \in 1..Len(doc) : doc[i].li}

\* document.getElementById / querySelector('#id') over the nodes: the index
\* of the first node with that id, 0 when there is none
NodeById(doc, id) == First({i \in 1..Len(doc) : doc[i].id = id})

\* the id of the submit block that lies outside the sections
ButtonId == <<"i", "d", "_", "2">>

RECURSIVE Ascending(_)
\* the members of a set of numbers as an ascending sequence
Ascending(S) ==
    IF S = {} THEN <<>>
    ELSE LET m == CHOOSE x \in S : \A y \in S : x <= y
         IN <<m>> \o Ascending(S \ {m})

\* allElements of extractFieldsFromDOM: the section items in document order,
\* then #id_2 when it exists and is not one of them
AllElements(doc) ==
    LET fieldElements == Ascending(SectionItems(doc))
        buttonElement == NodeById(doc, ButtonId)
    IN IF buttonElement # 0 /\ buttonElement \notin SectionItems(doc)
       THEN Append(fieldElements, buttonElement)
       ELSE fieldElements

\* field.text: the trimmed text of the first .form-label, .form-header or
\* .form-collapse-mid descendant, null when empty or absent; for a
\* control_button the button's trimmed text, null without a button
FieldText(el) ==
    LET labelText == IF el.label # Null THEN el.label ELSE el.mid
        text == IF labelText = Null \/ Trim(labelText) = <<>>
                THEN Null ELSE Trim(labelText)
    IN IF el.type = "control_button"
       THEN (IF el.btn = Null THEN Null ELSE Trim(el.btn))
       ELSE text

\* the value of the counter order before the first element
FirstOrder == 1

\* FieldOf with the counter incremented before it is read
FieldOfNextOrder(el, order) ==
    [id    |-> el.id,
     type  |-> IF el.type = "" THEN NoType ELSE el.type,
     text  |-> FieldText(el),
     order |-> order + 1]

\* the FormField of an element, order the value of the counter when map
\* reaches it (field.order = order++)
FieldOf(el, order) ==
    [id    |-> el.id,
     type  |-> IF el.type = "" THEN NoType ELSE el.type,
     text  |-> FieldText(el),
     order |-> order]

extractFieldsFromDOM(doc) ==
    LET allElements == AllElements(doc)
    IN [k \in 1..Len(allElements) |->
           FieldOf(doc[allElements[k]], FirstOrder + (k - 1))]

\* currentGroup before the first header
NoGroup == [open |-> FALSE, collapseField |-> <<>>, childFields |-> <<>>]

\* PushGroup without the test for a current group
PushGroupUnconditionally(fieldGroups, currentGroup) ==
    Append(fieldGroups,
           [collapseField |-> currentGroup.collapseField,
            childFields   |-> currentGroup.childFields])

\* fieldGroups.push(currentGroup) when there is a current group
PushGroup(fieldGroups, currentGroup) ==
    IF currentGroup.open
    THEN Append(fieldGroups,
                [collapseField |-> currentGroup.collapseField,
                 childFields   |-> currentGroup.childFields])
    ELSE fieldGroups

RECURSIVE GroupLoop(_, _, _)
\* the forEach of groupFields over the remaining fields, then the final push
GroupLoop(fields, fieldGroups, currentGroup) ==
    IF fields = <<>> THEN PushGroup(fieldGroups, currentGroup)
    ELSE LET field == Head(fields)
         IN IF field.type = "control_collapse"
            THEN GroupLoop(Tail(fields),
                           PushGroup(fieldGroups, currentGroup),
                           [open |-> TRUE, collapseField |-> field,
                            childFields |-> <<>>])
            ELSE IF currentGroup.open
            THEN GroupLoop(Tail(fields), fieldGroups,
                           [currentGroup EXCEPT
                               !.childFields = Append(@, field)])
            ELSE GroupLoop(Tail(fields), fieldGroups, currentGroup)

groupFields(fields) == GroupLoop(fields, <<>>, NoGroup)

(***************************************************************************)
(* JavaScript values as JSON.parse builds them.  s is the text of a string *)
(* or the decimal digits of a number; kids are the elements of an array,   *)
(* or the properties [k, v] of an object in insertion order, keys distinct.*)
(* The payloads of the model hold no integer-like property names, which    *)
(* for-in would move to the front.                                         *)
(***************************************************************************)

Undefined == [t |-> "undefined", s |-> <<>>, kids |-> <<>>]

JNull == [t |-> "null", s |-> <<>>, kids |-> <<>>]

JStr(s) == [t |-> "str", s |-> s, kids |-> <<>>]

JNum(digits) == [t |-> "num", s |-> digits, kids |-> <<>>]

JBool(b) ==
    [t |-> "bool",
     s |-> IF b THEN <<"t", "r", "u", "e">> ELSE <<"f", "a", "l", "s", "e">>,
     kids |-> <<>>]

JArr(elems) == [t |-> "arr", s |-> <<>>, kids |-> elems]

JObj(props) == [t |-> "obj", s |-> <<>>, kids |-> props]

\* the condition of  if (v), v ? a : b, a && b
Truthy(v) ==
    CASE v.t \in {"undefined", "null"} -> FALSE
      [] v.t = "str" -> v.s # <<>>
      [] v.t = "num" -> \E i \in 1..Len(v.s) : v.s[i] # "0"
      [] v.t = "bool" -> v.s = <<"t", "r", "u", "e">>
      [] OTHER -> TRUE

\* String(v) of a string, a number, null or undefined: the text a template
\* literal and an assignment to a DOMString attribute make of v
ToStr(v) ==
    CASE v.t \in {"str", "num", "bool"} -> v.s
      [] v.t = "null" -> <<"n", "u", "l", "l">>
      [] OTHER -> <<"u", "n", "d", "e", "f", "i", "n", "e", "d">>

\* v[name] of a value that is not null or undefined: the property of an
\* object, undefined on a primitive or when the object has none
Prop(v, name) ==
    IF v.t = "obj" /\ \E i \in 1..Len(v.kids) : v.kids[i].k = name
    THEN (CHOOSE p \in {v.kids[i] : i \in 1..Len(v.kids)} : p.k = name).v
    ELSE Undefined

\* v[i] for a number i >= 0: the element of an array, the character of a
\* string, undefined otherwise
At(v, i) ==
    CASE v.t = "arr" /\ i < Len(v.kids) -> v.kids[i + 1]
      [] v.t = "str" /\ i < Len(v.s) -> JStr(<<v.s[i + 1]>>)
      [] OTHER -> Undefined

\* the keys  for (const key in v)  visits: the property names of an object,
\* nothing for null, undefined and the other values of the model
Keys(v) ==
    IF v.t = "obj" THEN [i \in 1..Len(v.kids) |-> v.kids[i].k] ELSE <<>>

\* the property names the source reads
HeaderTextKey == <<"h", "e", "a", "d", "e", "r", "T", "e", "x", "t">>

FieldsKey == <<"f", "i", "e", "l", "d", "s">>

GroupsKey == <<"g", "r", "o", "u", "p", "s">>

TopLevelKey == <<"t", "o", "p", "L", "e", "v", "e", "l">>

\* 'リクエスト内容', the label of the request-content field
RequestContent == <<"ri", "ku", "e", "su", "to", "nai", "you">>

\* 'timeOption', the key of the member without a label
TimeOptionKey == <<"t", "i", "m", "e", "O", "p", "t", "i", "o", "n">>

\* '時' and '分', the keys whose one-character values are zero-padded
PaddedKeys == {<<"ji">>, <<"fun">>}

(***************************************************************************)
(* Mutations of the document                                               *)
(***************************************************************************)

\* the outcome of a step of the pass: the document it leaves, and whether
\* it ended by an exception
Done(doc) == [doc |-> doc, raised |-> FALSE]

Thrown(doc) == [doc |-> doc, raised |-> TRUE]

\* the value an element takes on  element.value = v : a select keeps v only
\* when one of its options carries it; an input or a textarea takes the
\* string of v, the empty string for null
AssignedValue(ctl, v) ==
    IF ctl.tag = "select"
    THEN (IF ToStr(v) \in ctl.opts THEN ToStr(v) ELSE <<>>)
    ELSE (IF v.t = "null" THEN <<>> ELSE ToStr(v))

\* doc after  element.value = v  on control c of node n
SetValue(doc, n, c, v) ==
    [doc EXCEPT ![n].ctls[c].value = AssignedValue(doc[n].ctls[c], v)]

\* doc after  element.checked = true  on control c of node n: checking a
\* radio unchecks the other radios of its name
SetChecked(doc, n, c) ==
    LET target == doc[n].ctls[c]
    IN [m \in 1..Len(doc) |->
          [doc[m] EXCEPT !.ctls =
              [d \in 1..Len(doc[m].ctls) |->
                  LET ctl == doc[m].ctls[d]
                  IN IF m = n /\ d = c THEN [ctl EXCEPT !.checked = TRUE]
                     ELSE IF target.type = "radio" /\ ctl.type = "radio"
                             /\ ctl.name = target.name
                     THEN [ctl EXCEPT !.checked = FALSE]
                     ELSE ctl]]]

\* the controls of ctls whose index is not in gone, in order: the node
\* after element.remove() on each of them
RemoveCtls(ctls, gone) ==
    LET keep == Ascending({i \in 1..Len(ctls) : i \notin gone})
    IN [k \in 1..Len(keep) |-> ctls[keep[k]]]

\* element.querySelectorAll('.form-radio-item'): the indices of the choice
\* items of a node, a static list
RadioItems(el) == Ascending({i \in 1..Len(el.ctls) : el.ctls[i].item})

\* the least number of choice items branch reduction acts on
MinChoiceItems == 4

\* RemovedItems taking, with an aligned entry, the last two items
RemovedItemsFromEnd(radioItems, hasGroupData) ==
    IF Len(radioItems) >= MinChoiceItems
    THEN (IF hasGroupData
          THEN {radioItems[Len(radioItems)], radioItems[Len(radioItems) - 1]}
          ELSE {radioItems[2], radioItems[1]})
    ELSE {}

\* RemovedItems with the test for four items off by one
RemovedItemsAboveFour(radioItems, hasGroupData) ==
    IF Len(radioItems) > MinChoiceItems
    THEN (IF hasGroupData THEN {radioItems[4], radioItems[3]}
          ELSE {radioItems[2], radioItems[1]})
    ELSE {}

\* RemovedItems with the two branches exchanged
RemovedItemsSwapped(radioItems, hasGroupData) ==
    IF Len(radioItems) >= MinChoiceItems
    THEN (IF hasGroupData THEN {radioItems[2], radioItems[1]}
          ELSE {radioItems[4], radioItems[3]})
    ELSE {}

\* the choice items branch reduction removes: with an aligned payload entry
\* radioItems[3] and radioItems[2], without one radioItems[1] and
\* radioItems[0]; none when there are fewer than four
RemovedItems(radioItems, hasGroupData) ==
    IF Len(radioItems) >= MinChoiceItems
    THEN (IF hasGroupData THEN {radioItems[4], radioItems[3]}
          ELSE {radioItems[2], radioItems[1]})
    ELSE {}

\* the document after branch reduction of the request-content field
ReduceBranch(doc, requestField, hasGroupData) ==
    LET n == NodeById(doc, requestField.id)
    IN IF n = 0 THEN doc
       ELSE [doc EXCEPT ![n].ctls =
                RemoveCtls(@, RemovedItems(RadioItems(doc[n]), hasGroupData))]

\* whether  #id  parses as a selector: an identifier does not start with a
\* digit
IdSelectorValid(id) == Head(id) \notin Digits

\* step 1 of the pass on a group with an aligned entry: the header override
OverrideHeader(doc, collapseField, groupData) ==
    IF collapseField.id = <<>> THEN Done(doc)
    ELSE IF ~IdSelectorValid(collapseField.id) THEN Thrown(doc)
    ELSE LET n == NodeById(doc, collapseField.id)
             headerText == Prop(groupData, HeaderTextKey)
         IN IF n # 0 /\ doc[n].mid # Null /\ Truthy(headerText)
            THEN Done([doc EXCEPT ![n].mid = ToStr(headerText)])
            ELSE Done(doc)

\* the prefix of the id of the visible date input
LiteModePrefix == <<"l", "i", "t", "e", "_", "m", "o", "d", "e", "_">>

\* the name suffixes of the hidden date inputs
YearSuffix == <<"[", "y", "e", "a", "r", "]">>

MonthSuffix == <<"[", "m", "o", "n", "t", "h", "]">>

DaySuffix == <<"[", "d", "a", "y", "]">>

\* yearInput.value = part, when the first input of node n whose name ends in
\* suffix exists
SetDatePart(doc, n, suffix, part) ==
    LET c == First({i \in 1..Len(doc[n].ctls) :
                       /\ doc[n].ctls[i].tag = "input"
                       /\ IsSuffix(suffix, doc[n].ctls[i].name)})
    IN IF c = 0 THEN doc ELSE SetValue(doc, n, c, JStr(part))

\* SetDateParts taking the first three of more parts
SetDatePartsOfThreeOrMore(doc, n, dateParts) ==
    IF Len(dateParts) >= 3
    THEN SetDatePart(
             SetDatePart(
                 SetDatePart(doc, n, YearSuffix, dateParts[1]),
                 n, MonthSuffix, dateParts[2]),
             n, DaySuffix, dateParts[3])
    ELSE doc

\* the hidden year, month and day inputs of node n written from dateParts
SetDateParts(doc, n, dateParts) ==
    IF Len(dateParts) = 3
    THEN SetDatePart(
             SetDatePart(
                 SetDatePart(doc, n, YearSuffix, dateParts[1]),
                 n, MonthSuffix, dateParts[2]),
             n, DaySuffix, dateParts[3])
    ELSE doc

\* the control_datetime branch: the visible input takes the raw value, then
\* value.split('-') feeds the hidden inputs; split exists on strings only
ApplyDate(doc, n, value) ==
    LET c == First({i \in 1..Len(doc[n].ctls) :
                       /\ doc[n].ctls[i].tag = "input"
                       /\ IsPrefix(LiteModePrefix, doc[n].ctls[i].id)})
        shown == IF c = 0 THEN doc ELSE SetValue(doc, n, c, value)
    IN IF value.t # "str" THEN Thrown(shown)
       ELSE Done(SetDateParts(shown, n, Split(value.s, "-")))

\* whether  input[name="name"][value="text"]  parses as a selector: a double
\* quote inside either string ends it early
RadioSelectorValid(name, text) ==
    ~Contains(name, "\"") /\ ~Contains(text, "\"")

\* document.querySelectorAll(`input[name="${name}"][value="${value}"]`)[0]:
\* the first input of the document with that name and value, as <<n, c>>,
\* <<>> when there is none.  The value attribute of a radio is its value.
FirstNamedInput(doc, name, text) ==
    LET Hits(m) == {i \in 1..Len(doc[m].ctls) :
                       /\ doc[m].ctls[i].tag = "input"
                       /\ doc[m].ctls[i].name = name
                       /\ doc[m].ctls[i].value = text}
        n == First({m \in 1..Len(doc) : Hits(m) # {}})
    IN IF n = 0 THEN <<>> ELSE <<n, First(Hits(n))>>

\* the radio branch: check the first input of that name and value
ApplyRadio(doc, input, value) ==
    IF ~RadioSelectorValid(input.name, ToStr(value)) THEN Thrown(doc)
    ELSE LET radioGroup == FirstNamedInput(doc, input.name, ToStr(value))
         IN IF radioGroup = <<>> THEN Done(doc)
            ELSE Done(SetChecked(doc, radioGroup[1], radioGroup[2]))

\* the branch of the other field types: the first input, select or textarea
\* of the node takes the value
ApplyInput(doc, n, value) ==
    IF doc[n].ctls = <<>> THEN Done(doc)
    ELSE LET input == doc[n].ctls[1]
         IN IF input.tag = "input" /\ input.type = "radio"
            THEN ApplyRadio(doc, input, value)
            ELSE Done(SetValue(doc, n, 1, value))

\* TargetField taking the last member that matches
TargetFieldLast(childFields, key) ==
    LET hits == IF key = TimeOptionKey
                THEN {i \in 1..Len(childFields) : childFields[i].text = Null}
                ELSE {i \in 1..Len(childFields) :
                         /\ childFields[i].text # Null
                         /\ StripWhitespace(childFields[i].text)
                                = StripWhitespace(key)}
    IN IF hits = {} THEN 0 ELSE CHOOSE i \in hits : \A j \in hits : j <= i

\* targetField of a key: for 'timeOption' the first member without a label,
\* otherwise the first member whose label equals the key, whitespace aside
TargetField(childFields, key) ==
    IF key = TimeOptionKey
    THEN First({i \in 1..Len(childFields) : childFields[i].text = Null})
    ELSE First({i \in 1..Len(childFields) :
                   /\ childFields[i].text # Null
                   /\ StripWhitespace(childFields[i].text)
                          = StripWhitespace(key)})

\* value after the zero-padding of a one-character hour or minute
PaddedValue(key, value) ==
    IF StripWhitespace(key) \in PaddedKeys
       /\ value.t = "str" /\ Len(value.s) = 1
    THEN JStr(<<"0">> \o value.s)
    ELSE value

\* one round of the loop over groupData.fields for a key other than
\* 'リクエスト内容'.  The values of the model are strings, numbers and null;
\* value.length of null raises.
ApplyKey(doc, childFields, key, rawValue) ==
    LET value == PaddedValue(key, rawValue)
        t == TargetField(childFields, key)
    IN IF StripWhitespace(key) \in PaddedKeys /\ rawValue.t = "null"
       THEN Thrown(doc)
       ELSE IF t = 0 \/ childFields[t].id = <<>> THEN Done(doc)
       ELSE LET n == NodeById(doc, childFields[t].id)
            IN IF n = 0 THEN Done(doc)
               ELSE IF childFields[t].type = "control_datetime"
               THEN ApplyDate(doc, n, value)
               ELSE ApplyInput(doc, n, value)

\* requestField of a group: the index of the first member labelled
\* 'リクエスト内容', 0 for undefined
RequestField(targetGroup) ==
    First({i \in 1..Len(targetGroup.childFields) :
              targetGroup.childFields[i].text = RequestContent})

\* Skipped without the test of the id
SkippedWithoutMember(targetGroup) == RequestField(targetGroup) = 0

\* the test  !requestField || !requestField.id  that skips a group
Skipped(targetGroup) ==
    \/ RequestField(targetGroup) = 0
    \/ targetGroup.childFields[RequestField(targetGroup)].id = <<>>

\* the callback of formGroups.forEach up to the loop over the keys: branch
\* reduction, then with an aligned entry the header override
BeginGroup(doc, targetGroup, groupData) ==
    IF Skipped(targetGroup) THEN Done(doc)
    ELSE LET reduced ==
                 ReduceBranch(doc,
                     targetGroup.childFields[RequestField(targetGroup)],
                     Truthy(groupData))
         IN IF Truthy(groupData)
            THEN OverrideHeader(reduced, targetGroup.collapseField, groupData)
            ELSE Done(reduced)

\* the number of rounds of  for (const key in groupData.fields)  the
\* callback makes for a group
KeyCount(targetGroup, groupData) ==
    IF Skipped(targetGroup) \/ ~Truthy(groupData) THEN 0
    ELSE Len(Keys(Prop(groupData, FieldsKey)))

\* the k-th round of that loop: 'リクエスト内容' is passed over
ApplyNthKey(doc, targetGroup, groupData, k) ==
    LET fields == Prop(groupData, FieldsKey)
        key == Keys(fields)[k]
    IN IF key = RequestContent THEN Done(doc)
       ELSE ApplyKey(doc, targetGroup.childFields, key, Prop(fields, key))

(***************************************************************************)
(* applyDataToForm.  src/src/form-modifier.ts takes the decoded payload as *)
(* the array of group records; src/unnamed/part_000 takes an object with   *)
(* the group records under 'groups' and direct bindings under 'topLevel'.  *)
(***************************************************************************)

Variants == {"form-modifier", "part_000"}

\* GroupData reading the record after the one at position i
GroupDataOfNext(v, data, i) ==
    IF v = "part_000"
    THEN (IF Truthy(data) /\ Truthy(Prop(data, GroupsKey))
          THEN At(Prop(data, GroupsKey), i + 1) ELSE Undefined)
    ELSE (IF Truthy(data) THEN At(data, i + 1) ELSE Undefined)

\* groupData of the group at the 0-based position i
GroupData(v, data, i) ==
    IF v = "part_000"
    THEN (IF Truthy(data) /\ Truthy(Prop(data, GroupsKey))
          THEN At(Prop(data, GroupsKey), i) ELSE Undefined)
    ELSE (IF Truthy(data) THEN At(data, i) ELSE Undefined)

\* the keys of topLevel and the ids of the elements they are bound to:
\* 'お子さんの氏名_姓', 'お子さんの氏名_名', '保護者メールアドレス', '対象月'
TopLevelBindings ==
    << [key |-> <<"o", "ko", "sa", "n", "no", "shi", "mei", "_", "sei">>,
        id  |-> <<"f", "i", "r", "s", "t", "_", "1", "9", "5">>],
       [key |-> <<"o", "ko", "sa", "n", "no", "shi", "mei", "_", "mei">>,
        id  |-> <<"l", "a", "s", "t", "_", "1", "9", "5">>],
       [key |-> <<"ho", "go", "sha", "me", "-", "ru", "a", "do", "re", "su">>,
        id  |-> <<"i", "n", "p", "u", "t", "_", "6">>],
       [key |-> <<"tai", "shou", "getsu">>,
        id  |-> <<"i", "n", "p", "u", "t", "_", "3", "4">>] >>

\* document.getElementById(id) for the id of a control: <<n, c>> of the
\* first control with that id, <<>> when there is none.  Ids are unique in
\* the documents of the model, so no node carries the id of a control.
CtlById(doc, id) ==
    LET Hits(m) == {i \in 1..Len(doc[m].ctls) : doc[m].ctls[i].id = id}
        n == First({m \in 1..Len(doc) : Hits(m) # {}})
    IN IF n = 0 THEN <<>> ELSE <<n, First(Hits(n))>>

\* one binding of the top-level block
ApplyBinding(doc, topLevel, binding) ==
    LET el == CtlById(doc, binding.id)
    IN IF Truthy(Prop(topLevel, binding.key)) /\ el # <<>>
       THEN SetValue(doc, el[1], el[2], Prop(topLevel, binding.key))
       ELSE doc

RECURSIVE ApplyBindings(_, _, _)
ApplyBindings(doc, topLevel, k) ==
    IF k > Len(TopLevelBindings) THEN doc
    ELSE ApplyBindings(ApplyBinding(doc, topLevel, TopLevelBindings[k]),
                       topLevel, k + 1)

\* the block of applyDataToForm before the loop over the groups
ApplyTopLevel(v, doc, data) ==
    IF v = "part_000" /\ Truthy(data) /\ Truthy(Prop(data, TopLevelKey))
    THEN ApplyBindings(doc, Prop(data, TopLevelKey), 1)
    ELSE doc

(***************************************************************************)
(* The timer callback of initializeForm (main.ts:88-102)                   *)
(***************************************************************************)

\* the timer callback is about to run on a page without script elements
ScriptsRun ==
    /\ scripts = <<>>
    /\ scriptPos = 0
    /\ log = <<>>
    /\ calls = [structure |-> 0, apply |-> 0]

\* const formStructure = getJotformStructure()
GetStructure ==
    /\ pc = "structure"
    /\ allFields' = extractFieldsFromDOM(document)
    /\ formGroups' = groupFields(extractFieldsFromDOM(document))
    /\ pc' = "apply"
    /\ UNCHANGED <<document, jotformDoc, variant, search, queryData, index,
                   keyPos, raised>>
    /\ calls' = [calls EXCEPT !.structure = @ + 1]
    /\ UNCHANGED <<scripts, scriptPos, log>>

\* the call of applyDataToForm: the top-level block, then the loop starts
ApplyBegin ==
    /\ pc = "apply"
    /\ document' = ApplyTopLevel(variant, document, queryData)
    /\ index' = 0
    /\ pc' = "groups"
    /\ UNCHANGED <<jotformDoc, variant, search, queryData, allFields,
                   formGroups, keyPos, raised>>
    /\ calls' = [calls EXCEPT !.apply = @ + 1]
    /\ UNCHANGED <<scripts, scriptPos, log>>

\* where the callback stands after a step on the group at index that left
\* nextKey as the next key to visit: in the loop over the keys, or back in
\* forEach at the next group; after an exception, where it was raised
Advance(step, nextKey) ==
    LET n == KeyCount(formGroups[index + 1],
                      GroupData(variant, queryData, index))
    IN /\ document' = step.doc
       /\ raised' = step.raised
       /\ pc' = IF step.raised THEN "failed"
                ELSE IF nextKey <= n THEN "fields" ELSE "groups"
       /\ keyPos' = IF step.raised THEN nextKey - 1
                    ELSE IF nextKey <= n THEN nextKey ELSE 0
       /\ index' = IF step.raised \/ nextKey <= n THEN index ELSE index + 1

\* the forEach callback enters the group at index: branch reduction and
\* header override.  An exception leaves the loop, the function and the
\* timer callback.
EnterGroup ==
    /\ pc = "groups"
    /\ index < Len(formGroups)
    /\ Advance(BeginGroup(document, formGroups[index + 1],
                          GroupData(variant, queryData, index)), 1)
    /\ UNCHANGED <<jotformDoc, variant, search, queryData, allFields,
                   formGroups>>
    /\ UNCHANGED <<scripts, scriptPos, log, calls>>

\* one round of the loop over the keys of groupData.fields
ApplyField ==
    /\ pc = "fields"
    /\ Advance(ApplyNthKey(document, formGroups[index + 1],
                           GroupData(variant, queryData, index), keyPos),
               keyPos + 1)
    /\ UNCHANGED <<jotformDoc, variant, search, queryData, allFields,
                   formGroups>>
    /\ UNCHANGED <<scripts, scriptPos, log, calls>>

\* applyDataToForm returns
ApplyReturn ==
    /\ pc = "groups"
    /\ index = Len(formGroups)
    /\ pc' = "done"
    /\ UNCHANGED <<document, jotformDoc, variant, search, queryData,
                   allFields, formGroups, index, keyPos, raised>>
    /\ UNCHANGED <<scripts, scriptPos, log, calls>>

Next == GetStructure \/ ApplyBegin \/ EnterGroup \/ ApplyField \/ ApplyReturn

(***************************************************************************)
(* Input domains: documents in the markup conventions of the form page,    *)
(* and decoded payloads                                                    *)
(***************************************************************************)

\* the most sections of a document and the most group records of a payload
MaxGroups == 2

\* the most choice items of a request-content field
MaxItems == 5

\* the most keys of one group record of FieldInit
MaxKeys == 2

\* the digit that tells the ids of the g-th section apart
GroupDigit(g) == <<"1", "2", "3", "4", "5", "6", "7", "8", "9">>[g]

\* the id of the k-th list item of the g-th section
NodeId(g, k) == <<"i", "d", "_", GroupDigit(g), k>>

\* a name or an id of a control of that list item
CtlName(prefix, g, k) == prefix \o <<"_", GroupDigit(g), k>>

InputPrefix == <<"i", "n", "p", "u", "t">>

Radio(id, name, value, checked) ==
    [tag |-> "input", type |-> "radio", id |-> id, name |-> name,
     value |-> value, checked |-> checked, item |-> TRUE, opts |-> {}]

Input(type, id, name, value) ==
    [tag |-> "input", type |-> type, id |-> id, name |-> name,
     value |-> value, checked |-> FALSE, item |-> FALSE, opts |-> {}]

Select(id, name, opts) ==
    [tag |-> "select", type |-> "select-one", id |-> id, name |-> name,
     value |-> <<>>, checked |-> FALSE, item |-> FALSE, opts |-> opts]

Li(id, type, label, mid, ctls) ==
    [li |-> TRUE, id |-> id, type |-> type, label |-> label, mid |-> mid,
     btn |-> Null, ctls |-> ctls]

\* the values of the choice items of a request-content field
ChoiceValues == <<"A", "B", "C", "D", "E", "F", "G">>

\* a section header; mid is the text of its .form-collapse-mid or Null
Header(g, mid) == Li(NodeId(g, "0"), "control_collapse", Null, mid, <<>>)

SectionTitle == <<"S", "e", "c">>

\* the request-content field with n choice items, the first one checked
Request(g, id, n) ==
    Li(id, "control_radio", RequestContent, Null,
       [k \in 1..n |->
           Radio(CtlName(InputPrefix, g, "1") \o <<"_", ChoiceValues[k]>>,
                 CtlName(<<"q">>, g, "1"), <<ChoiceValues[k]>>, k = 1)])

\* '対象月'
MonthLabel == <<"tai", "shou", "getsu">>

\* a dropdown labelled label; the one of the first section is the element
\* the top-level binding of '対象月' names
Month(g, label) ==
    Li(NodeId(g, "2"), "control_dropdown", label, Null,
       <<Select(IF g = 1 THEN TopLevelBindings[4].id
                ELSE CtlName(InputPrefix, g, "2"),
                CtlName(<<"q">>, g, "2"), {<<"5">>, <<"6">>})>>)

\* '日付'
DateLabel == <<"hi", "zuke">>

\* a date field: the visible input when shown, and of the hidden year,
\* month and day inputs those whose suffix is in parts
Date(g, shown, parts) ==
    Li(NodeId(g, "3"), "control_datetime", DateLabel, Null,
       (IF shown
        THEN <<Input("text", LiteModePrefix \o <<GroupDigit(g), "3">>,
                     CtlName(<<"q">>, g, "3") \o <<"[", "l", "i", "t", "e", "]">>,
                     <<>>)>>
        ELSE <<>>)
       \o (IF YearSuffix \in parts
           THEN <<Input("hidden", <<"y">>,
                        CtlName(<<"q">>, g, "3") \o YearSuffix, <<"1">>)>>
           ELSE <<>>)
       \o (IF MonthSuffix \in parts
           THEN <<Input("hidden", <<"m">>,
                        CtlName(<<"q">>, g, "3") \o MonthSuffix, <<"1">>)>>
           ELSE <<>>)
       \o (IF DaySuffix \in parts
           THEN <<Input("hidden", <<"d">>,
                        CtlName(<<"q">>, g, "3") \o DaySuffix, <<"1">>)>>
           ELSE <<>>))

\* '送迎'
ChoiceLabel == <<"sou", "gei">>

\* a radio field of two choices, neither checked
Choice(g, label) ==
    Li(NodeId(g, "4"), "control_radio", label, Null,
       <<Radio(CtlName(InputPrefix, g, "4") \o <<"_", "0">>,
               CtlName(<<"q">>, g, "4"), <<"y", "e", "s">>, FALSE),
         Radio(CtlName(InputPrefix, g, "4") \o <<"_", "1">>,
               CtlName(<<"q">>, g, "4"), <<"n", "o">>, FALSE)>>)

\* a text box labelled label
TextBox(g, k, label, id) ==
    Li(NodeId(g, k), "control_textbox", label, Null,
       <<Input("text", id, CtlName(<<"q">>, g, k), <<>>)>>)

\* '時'
HourLabel == <<"ji">>

AllDateParts == {YearSuffix, MonthSuffix, DaySuffix}

\* the kinds of section of Init: "standard" has the four choice items of the
\* form page, "wide" has MaxItems, "narrow" one less than branch reduction
\* needs, the request-content field of "anonymous" is a list item without
\* an id, "plain" has no request-content field
SectionKinds == {"standard", "wide", "narrow", "anonymous", "plain"}

\* the list items of the g-th section
Section(kind, g) ==
    CASE kind = "standard" ->
           <<Header(g, SectionTitle),
             Request(g, NodeId(g, "1"), MinChoiceItems),
             Month(g, MonthLabel),
             Date(g, TRUE, AllDateParts)>>
      [] kind = "wide" ->
           <<Header(g, SectionTitle),
             Request(g, NodeId(g, "1"), MaxItems),
             Choice(g, ChoiceLabel),
             TextBox(g, "5", HourLabel, CtlName(InputPrefix, g, "5"))>>
      [] kind = "narrow" ->
           <<Header(g, SectionTitle),
             Request(g, NodeId(g, "1"), MinChoiceItems - 1),
             Month(g, MonthLabel),
             Choice(g, ChoiceLabel)>>
      [] kind = "anonymous" ->
           <<Header(g, SectionTitle),
             Request(g, <<>>, MinChoiceItems),
             Month(g, MonthLabel)>>
      [] OTHER ->
           <<Header(g, SectionTitle),
             Month(g, MonthLabel),
             Choice(g, ChoiceLabel)>>

\* the field before the first section: the guardian's e-mail address, the
\* element the top-level binding of '保護者メールアドレス' names
Preamble ==
    <<[TextBox(1, "9", TopLevelBindings[3].key, TopLevelBindings[3].id)
          EXCEPT !.id = <<"i", "d", "_", "6">>, !.type = "control_email"]>>

\* the submit block, outside the sections
SubmitBlock ==
    [li |-> FALSE, id |-> ButtonId, type |-> "control_button",
     label |-> Null, mid |-> Null, btn |-> <<"O", "K">>, ctls |-> <<>>]

\* the sequences over S of length at most n
SeqsUpTo(S, n) == UNION {[1..k -> S] : k \in 0..n}

RECURSIVE Sections(_, _)
\* the list items of the sections of the kinds from the g-th on
Sections(kinds, g) ==
    IF g > Len(kinds) THEN <<>>
    ELSE Section(kinds[g], g) \o Sections(kinds, g + 1)

\* a form page of the given sections
Page(kinds) == Preamble \o Sections(kinds, 1) \o <<SubmitBlock>>

Documents == {Page(kinds) : kinds \in SeqsUpTo(SectionKinds, MaxGroups) \ {<<>>}}

\* a group record of the payload
Entry(headerText, fields) ==
    JObj(<<[k |-> HeaderTextKey, v |-> headerText],
           [k |-> FieldsKey, v |-> JObj(fields)]>>)

\* the record of the end-to-end scenario:
\* {"headerText":"Changed","fields":{"リクエスト内容":"x","対象月":"5"}}
ScenarioEntry ==
    Entry(JStr(<<"C", "h", "a", "n", "g", "e", "d">>),
          <<[k |-> RequestContent, v |-> JStr(<<"x">>)],
            [k |-> MonthLabel, v |-> JStr(<<"5">>)]>>)

\* a record of well-formed values:
\* {"headerText":"","fields":{"送迎":"no","時":"7","日付":"2024-5-03"}}
PlainEntry ==
    Entry(JStr(<<>>),
          <<[k |-> ChoiceLabel, v |-> JStr(<<"n", "o">>)],
            [k |-> HourLabel, v |-> JStr(<<"7">>)],
            [k |-> DateLabel,
             v |-> JStr(<<"2", "0", "2", "4", "-", "5", "-", "0", "3">>)]>>)

\* a record whose values are not what the fields take:
\* {"headerText":"New","fields":{"対象月":"6","日付":7,"送迎":"a\"b"}}
OddEntry ==
    Entry(JStr(<<"N", "e", "w">>),
          <<[k |-> MonthLabel, v |-> JStr(<<"6">>)],
            [k |-> DateLabel, v |-> JNum(<<"7">>)],
            [k |-> ChoiceLabel, v |-> JStr(<<"a", "\"", "b">>)]>>)

\* the group records of Init; null fills the place of a group without data
Entries == {ScenarioEntry, PlainEntry, OddEntry, JNull}

\* {"対象月":"6","保護者メールアドレス":"a@b"}
TopLevelRecord ==
    JObj(<<[k |-> TopLevelBindings[4].key, v |-> JStr(<<"6">>)],
           [k |-> TopLevelBindings[3].key, v |-> JStr(<<"a", "@", "b">>)]>>)

\* the decoded payloads over the group records of a set: null, the array of
\* the records, the object holding them under 'groups', and that object
\* with top-level bindings
PayloadsOf(records) ==
    {JNull}
    \cup {JArr(g) : g \in records}
    \cup {JObj(<<[k |-> GroupsKey, v |-> JArr(g)]>>) : g \in records}
    \cup {JObj(<<[k |-> TopLevelKey, v |-> TopLevelRecord],
                 [k |-> GroupsKey, v |-> JArr(g)]>>) : g \in records}

Payloads == PayloadsOf(SeqsUpTo(Entries, MaxGroups))

\* '対象 月', the label of the dropdown with a space inside
SpacedMonthLabel == <<"tai", "shou", " ", "getsu">>

\* '日 付', the key of the date field with a space inside
SpacedDateKey == <<"hi", " ", "zuke">>

\* 'リクエスト 内容', the label of the request-content field with a space
\* inside
SpacedRequestKey == <<"ri", "ku", "e", "su", "to", " ", "nai", "you">>

\* '備考'
NoteLabel == <<"bi", "kou">>

\* a text area labelled label
TextArea(g, k, label) ==
    Li(NodeId(g, k), "control_textarea", label, Null,
       <<[Input("textarea", CtlName(InputPrefix, g, k),
                CtlName(<<"q">>, g, k), <<>>) EXCEPT !.tag = "textarea"]>>)

\* the members that follow the request-content field in the one section of
\* a page of FieldInit: date fields with and without the visible input and
\* with any of the hidden inputs, a radio field, fields of the same label
\* up to whitespace, fields without a label, an hour box and a text area
FieldSets ==
    {<<Date(1, shown, parts)>> :
        shown \in BOOLEAN,
        parts \in {AllDateParts, {YearSuffix, DaySuffix}, {MonthSuffix}, {}}}
    \cup {<<Choice(1, ChoiceLabel), Month(1, MonthLabel)>>,
          <<Month(1, SpacedMonthLabel),
            TextBox(1, "5", MonthLabel, CtlName(InputPrefix, 1, "5"))>>,
          <<Month(1, Null), Choice(1, Null)>>,
          <<TextBox(1, "5", HourLabel, CtlName(InputPrefix, 1, "5")),
            TextArea(1, "6", NoteLabel)>>,
          <<[Date(1, TRUE, AllDateParts) EXCEPT !.label = HourLabel]>>}

\* a page of one section: header, request-content field of four choice
\* items, and the members
FieldPage(members) ==
    Preamble
    \o <<Header(1, SectionTitle), Request(1, NodeId(1, "1"), MinChoiceItems)>>
    \o members \o <<SubmitBlock>>

\* the keys and values of the group records of FieldInit
FieldPairs ==
    {[k |-> DateLabel,
      v |-> JStr(<<"2", "0", "2", "4", "-", "5", "-", "0", "3">>)],
     [k |-> DateLabel,
      v |-> JStr(<<"2", "0", "2", "4", "/", "0", "5", "/", "0", "3">>)],
     [k |-> DateLabel, v |-> JStr(<<"2", "0", "2", "4", "-", "0", "5">>)],
     [k |-> DateLabel, v |-> JStr(<<"1", "-", "2", "-", "3", "-", "4">>)],
     [k |-> SpacedDateKey, v |-> JStr(<<"-", "9", "-">>)],
     [k |-> DateLabel, v |-> JNum(<<"7">>)],
     [k |-> ChoiceLabel, v |-> JStr(<<"n", "o">>)],
     [k |-> ChoiceLabel, v |-> JStr(<<"m", "a", "y", "b", "e">>)],
     [k |-> ChoiceLabel, v |-> JStr(<<"a", "\"", "b">>)],
     [k |-> MonthLabel, v |-> JStr(<<"5">>)],
     [k |-> HourLabel, v |-> JStr(<<"7">>)],
     [k |-> HourLabel, v |-> JNull],
     [k |-> NoteLabel, v |-> JStr(<<"o", "k">>)],
     [k |-> TimeOptionKey, v |-> JStr(<<"6">>)],
     [k |-> RequestContent, v |-> JStr(<<"C">>)],
     [k |-> SpacedRequestKey, v |-> JStr(<<"B">>)]}

\* the field overrides of FieldInit: at most MaxKeys pairs of distinct keys
FieldOverrides ==
    {f \in SeqsUpTo(FieldPairs, MaxKeys) :
        \A i, j \in 1..Len(f) : f[i].k = f[j].k => i = j}

\* the payload that carries one group record to a revision
PayloadFor(v, record) ==
    IF v = "part_000"
    THEN JObj(<<[k |-> GroupsKey, v |-> JArr(<<record>>)]>>)
    ELSE JArr(<<record>>)

\* the timer fires on a page of one section; the payload holds one group
\* record of any field overrides
FieldInit ==
    /\ jotformDoc \in {FieldPage(members) : members \in FieldSets}
    /\ document = jotformDoc
    /\ variant \in Variants
    /\ search = <<>>
    /\ queryData \in {PayloadFor(variant, Entry(JStr(<<"N", "e", "w">>), f)) :
                         f \in FieldOverrides}
    /\ allFields = <<>>
    /\ formGroups = <<>>
    /\ index = 0
    /\ keyPos = 0
    /\ raised = FALSE
    /\ pc = "structure"
    /\ ScriptsRun

FieldSpec == FieldInit /\ [][Next]_vars

\* the timer fires on a page whose scripts have run; the payload is decoded
Init ==
    /\ jotformDoc \in Documents
    /\ document = jotformDoc
    /\ variant \in Variants
    /\ search = <<>>
    /\ queryData \in Payloads
    /\ allFields = <<>>
    /\ formGroups = <<>>
    /\ index = 0
    /\ keyPos = 0
    /\ raised = FALSE
    /\ pc = "structure"
    /\ ScriptsRun

Spec == Init /\ [][Next]_vars

(***************************************************************************)
(* parseQueryParameters                                                    *)
(***************************************************************************)

\* the printable ASCII characters, from code 32 to code 126 (the grave
\* accent, code 96, written u96)
Ascii ==
    <<" ", "!", "\"", "#", "$", "%", "&", "'", "(", ")", "*", "+",
      ",", "-", ".", "/", "0", "1", "2", "3", "4", "5", "6", "7",
      "8", "9", ":", ";", "<", "=", ">", "?", "@", "A", "B", "C",
      "D", "E", "F", "G", "H", "I", "J", "K", "L", "M", "N", "O",
      "P", "Q", "R", "S", "T", "U", "V", "W", "X", "Y", "Z", "[",
      "\\", "]", "^", "_", "u96", "a", "b", "c", "d", "e", "f", "g",
      "h", "i", "j", "k", "l", "m", "n", "o", "p", "q", "r", "s",
      "t", "u", "v", "w", "x", "y", "z", "{", "|", "}", "~">>

\* the character of a code point: code points outside printable ASCII
\* other than tab, line feed, form feed and carriage return are written
\* u<code point>
Char(cp) ==
    CASE cp \in 32..126 -> Ascii[cp - 31]
      [] cp = 9 -> "\t"
      [] cp = 10 -> "\n"
      [] cp = 12 -> "\f"
      [] cp = 13 -> "\r"
      [] OTHER -> "u" \o ToString(cp)

\* A-Z, a-z, 0-9, + and /: the character at position k + 1 stands for the
\* six bits k
Base64Chars ==
    SubSeq(Ascii, 34, 59) \o SubSeq(Ascii, 66, 91) \o SubSeq(Ascii, 17, 26)
        \o <<"+", "/">>

Sextet(c) == (CHOOSE k \in 1..64 : Base64Chars[k] = c) - 1

\* params.get('data') of the raw value of the parameter, Null without the
\* parameter: URLSearchParams decodes '+' to a space
QueryGet(raw) ==
    IF raw = Null THEN Null
    ELSE [i \in 1..Len(raw) |-> IF raw[i] = "+" THEN " " ELSE raw[i]]

\* data.replace(/ /g, '+')
RestorePlus(data) ==
    [i \in 1..Len(data) |-> IF data[i] = " " THEN "+" ELSE data[i]]

\* atob drops ASCII whitespace before it decodes
NotAsciiWhitespace(c) == c \notin {" ", "\t", "\n", "\f", "\r"}

\* atob takes one or two '=' off the end of a text whose length is a
\* multiple of 4
WithoutPadding(s) ==
    IF Len(s) % 4 = 0 /\ Len(s) >= 1 /\ s[Len(s)] = "="
    THEN IF Len(s) >= 2 /\ s[Len(s) - 1] = "="
         THEN SubSeq(s, 1, Len(s) - 2)
         ELSE SubSeq(s, 1, Len(s) - 1)
    ELSE s

\* the j-th byte of a sequence of six-bit values
ByteAt(sx, j) ==
    LET base == ((j - 1) \div 3) * 4
    IN CASE (j - 1) % 3 = 0 -> sx[base + 1] * 4 + sx[base + 2] \div 16
         [] (j - 1) % 3 = 1 ->
                (sx[base + 2] % 16) * 16 + sx[base + 3] \div 4
         [] OTHER -> (sx[base + 3] % 4) * 64 + sx[base + 4]

\* atob(str): ok is FALSE when atob raises InvalidCharacterError, otherwise
\* bytes holds the character codes of the binary string
atob(str) ==
    LET s == WithoutPadding(SelectSeq(str, NotAsciiWhitespace))
        n == Len(s)
        sx == [i \in 1..n |-> Sextet(s[i])]
        count == (n \div 4) * 3 + (IF n % 4 = 0 THEN 0 ELSE (n % 4) - 1)
    IN IF n % 4 # 1
          /\ \A i \in 1..n : \E k \in 1..64 : Base64Chars[k] = s[i]
       THEN [ok |-> TRUE, bytes |-> [j \in 1..count |-> ByteAt(sx, j)]]
       ELSE [ok |-> FALSE, bytes |-> <<>>]

\* U+FFFD, which a decoder that is not fatal puts in place of every
\* malformed sequence
ReplacementCharacter == 65533

\* the number of bytes that follow the lead byte b of a UTF-8 sequence, -1
\* when b cannot lead one
Needed(b) ==
    CASE b < 128 -> 0
      [] b \in 194..223 -> 1
      [] b \in 224..239 -> 2
      [] b \in 240..244 -> 3
      [] OTHER -> -1

\* the bytes that may follow the lead byte b as the k-th byte after it
Continuation(b, k) ==
    IF k > 1 THEN 128..191
    ELSE CASE b = 224 -> 160..191
           [] b = 237 -> 128..159
           [] b = 240 -> 144..191
           [] b = 244 -> 128..143
           [] OTHER -> 128..191

\* the number of bytes after position i that continue the sequence led by
\* bytes[i]
Continued(bytes, i) ==
    LET fits == {k \in 1..Needed(bytes[i]) :
                    \A m \in 1..k :
                        /\ i + m <= Len(bytes)
                        /\ bytes[i + m] \in Continuation(bytes[i], m)}
    IN Cardinality(fits)

\* the code point of the complete sequence of n + 1 bytes at position i
CodePoint(bytes, i, n) ==
    CASE n = 0 -> bytes[i]
      [] n = 1 -> (bytes[i] - 192) * 64 + (bytes[i + 1] - 128)
      [] n = 2 -> (bytes[i] - 224) * 4096 + (bytes[i + 1] - 128) * 64
                      + (bytes[i + 2] - 128)
      [] OTHER -> (bytes[i] - 240) * 262144 + (bytes[i + 1] - 128) * 4096
                      + (bytes[i + 2] - 128) * 64 + (bytes[i + 3] - 128)

RECURSIVE Utf8From(_, _)
\* the code points decoded from position i on: a byte that cannot lead a
\* sequence, and a sequence cut short by the end or by a byte that cannot
\* continue it, give one U+FFFD each; decoding goes on at the byte that
\* did not fit
Utf8From(bytes, i) ==
    IF i > Len(bytes) THEN <<>>
    ELSE IF Needed(bytes[i]) = -1
    THEN <<ReplacementCharacter>> \o Utf8From(bytes, i + 1)
    ELSE IF Continued(bytes, i) = Needed(bytes[i])
    THEN <<CodePoint(bytes, i, Needed(bytes[i]))>>
             \o Utf8From(bytes, i + Needed(bytes[i]) + 1)
    ELSE <<ReplacementCharacter>>
             \o Utf8From(bytes, i + Continued(bytes, i) + 1)

ByteOrderMark == <<239, 187, 191>>

\* new TextDecoder().decode(bytes): UTF-8, not fatal, a leading byte order
\* mark dropped
TextDecode(bytes) ==
    LET cps == Utf8From(bytes, IF IsPrefix(ByteOrderMark, bytes) THEN 4 ELSE 1)
    IN [i \in 1..Len(cps) |-> Char(cps[i])]

\* JSON.parse: the white space of JSON
JsonWhiteSpace == {" ", "\t", "\n", "\r"}

RECURSIVE SkipWhiteSpace(_, _)
SkipWhiteSpace(t, i) ==
    IF i <= Len(t) /\ t[i] \in JsonWhiteSpace
    THEN SkipWhiteSpace(t, i + 1) ELSE i

\* the outcome of parsing a part of the text: a SyntaxError, or the value
\* and the position after it
Failed == [ok |-> FALSE, v |-> Undefined, pos |-> 0]

Parsed(v, pos) == [ok |-> TRUE, v |-> v, pos |-> pos]

\* the text holds word at position i
Matches(t, i, word) ==
    /\ i + Len(word) - 1 <= Len(t)
    /\ SubSeq(t, i, i + Len(word) - 1) = word

\* the characters below U+0020, which a JSON string may not hold
ControlCharacters == {Char(k) : k \in 0..31}

\* the value of a hexadecimal digit, -1 for any other character
HexValue(c) ==
    LET digits == <<"0", "1", "2", "3", "4", "5", "6", "7", "8", "9",
                    "a", "b", "c", "d", "e", "f", "A", "B", "C", "D", "E", "F">>
        at == First({k \in 1..22 : digits[k] = c})
    IN IF at = 0 THEN -1 ELSE IF at <= 16 THEN at - 1 ELSE at - 7

\* the character a backslash and the character c stand for
Escaped(c) ==
    CASE c = "b" -> Char(8)
      [] c = "f" -> "\f"
      [] c = "n" -> "\n"
      [] c = "r" -> "\r"
      [] c = "t" -> "\t"
      [] OTHER -> c

RECURSIVE StringBody(_, _, _)
\* a JSON string from position i, after its opening quote and the
\* characters acc
StringBody(t, i, acc) ==
    IF i > Len(t) \/ t[i] \in ControlCharacters THEN Failed
    ELSE IF t[i] = "\"" THEN Parsed(JStr(acc), i + 1)
    ELSE IF t[i] # "\\" THEN StringBody(t, i + 1, Append(acc, t[i]))
    ELSE IF i + 1 > Len(t) THEN Failed
    ELSE IF t[i + 1] \in {"\"", "\\", "/", "b", "f", "n", "r", "t"}
    THEN StringBody(t, i + 2, Append(acc, Escaped(t[i + 1])))
    ELSE IF /\ t[i + 1] = "u"
            /\ i + 5 <= Len(t)
            /\ \A k \in 2..5 : HexValue(t[i + k]) >= 0
    THEN StringBody(t, i + 6,
             Append(acc, Char(HexValue(t[i + 2]) * 4096
                              + HexValue(t[i + 3]) * 256
                              + HexValue(t[i + 4]) * 16
                              + HexValue(t[i + 5]))))
    ELSE Failed

RECURSIVE DigitsEnd(_, _)
\* the position after the digits that start at position i
DigitsEnd(t, i) ==
    IF i <= Len(t) /\ t[i] \in Digits THEN DigitsEnd(t, i + 1) ELSE i

\* a JSON number from position i.  The value of a number without fraction
\* and exponent is its digits, signed unless they are zero; a number with
\* a fraction or an exponent is kept as it is written.
NumberAt(t, i) ==
    LET first == IF t[i] = "-" THEN i + 1 ELSE i
        intEnd == IF first <= Len(t) /\ t[first] = "0" THEN first + 1
                  ELSE DigitsEnd(t, first)
        fracEnd == IF intEnd <= Len(t) /\ t[intEnd] = "."
                   THEN DigitsEnd(t, intEnd + 1) ELSE intEnd
        expFirst == IF fracEnd <= Len(t) /\ t[fracEnd] \in {"e", "E"}
                    THEN IF fracEnd + 1 <= Len(t)
                            /\ t[fracEnd + 1] \in {"+", "-"}
                         THEN fracEnd + 2 ELSE fracEnd + 1
                    ELSE 0
        expEnd == IF expFirst = 0 THEN fracEnd ELSE DigitsEnd(t, expFirst)
    IN IF /\ intEnd > first
          /\ fracEnd = intEnd \/ fracEnd > intEnd + 1
          /\ expFirst = 0 \/ expEnd > expFirst
       THEN Parsed(JNum(IF SubSeq(t, i, expEnd - 1) = <<"-", "0">>
                        THEN <<"0">> ELSE SubSeq(t, i, expEnd - 1)),
                   expEnd)
       ELSE Failed

\* the properties props with the property k set to v: a name that comes
\* twice keeps its place and takes the later value
DefineProperty(props, k, v) ==
    IF \E i \in 1..Len(props) : props[i].k = k
    THEN [i \in 1..Len(props) |->
             IF props[i].k = k THEN [k |-> k, v |-> v] ELSE props[i]]
    ELSE Append(props, [k |-> k, v |-> v])

RECURSIVE ValueAt(_, _), ElementsAt(_, _, _), MembersAt(_, _, _)
\* a JSON value from position start, white space before it skipped
ValueAt(t, start) ==
    LET i == SkipWhiteSpace(t, start)
    IN IF i > Len(t) THEN Failed
       ELSE CASE Matches(t, i, <<"n", "u", "l", "l">>) ->
                     Parsed(JNull, i + 4)
              [] Matches(t, i, <<"t", "r", "u", "e">>) ->
                     Parsed(JBool(TRUE), i + 4)
              [] Matches(t, i, <<"f", "a", "l", "s", "e">>) ->
                     Parsed(JBool(FALSE), i + 5)
              [] t[i] = "\"" -> StringBody(t, i + 1, <<>>)
              [] t[i] = "-" \/ t[i] \in Digits -> NumberAt(t, i)
              [] t[i] = "[" ->
                     IF /\ SkipWhiteSpace(t, i + 1) <= Len(t)
                        /\ t[SkipWhiteSpace(t, i + 1)] = "]"
                     THEN Parsed(JArr(<<>>), SkipWhiteSpace(t, i + 1) + 1)
                     ELSE ElementsAt(t, i + 1, <<>>)
              [] t[i] = "{" ->
                     IF /\ SkipWhiteSpace(t, i + 1) <= Len(t)
                        /\ t[SkipWhiteSpace(t, i + 1)] = "}"
                     THEN Parsed(JObj(<<>>), SkipWhiteSpace(t, i + 1) + 1)
                     ELSE MembersAt(t, i + 1, <<>>)
              [] OTHER -> Failed

\* the elements of an array from position i, after the elements acc
ElementsAt(t, i, acc) ==
    LET r == ValueAt(t, i)
        j == SkipWhiteSpace(t, r.pos)
    IN IF ~r.ok \/ j > Len(t) THEN Failed
       ELSE IF t[j] = "," THEN ElementsAt(t, j + 1, Append(acc, r.v))
       ELSE IF t[j] = "]" THEN Parsed(JArr(Append(acc, r.v)), j + 1)
       ELSE Failed

\* the members of an object from position i, after the properties acc
MembersAt(t, i, acc) ==
    LET k == SkipWhiteSpace(t, i)
        name == IF k <= Len(t) /\ t[k] = "\""
                THEN StringBody(t, k + 1, <<>>) ELSE Failed
        colon == SkipWhiteSpace(t, name.pos)
        r == IF name.ok /\ colon <= Len(t) /\ t[colon] = ":"
             THEN ValueAt(t, colon + 1) ELSE Failed
        j == SkipWhiteSpace(t, r.pos)
    IN IF ~r.ok \/ j > Len(t) THEN Failed
       ELSE IF t[j] = ","
       THEN MembersAt(t, j + 1, DefineProperty(acc, name.v.s, r.v))
       ELSE IF t[j] = "}"
       THEN Parsed(JObj(DefineProperty(acc, name.v.s, r.v)), j + 1)
       ELSE Failed

\* JSON.parse(text): ok is FALSE when it raises a SyntaxError.  A value is
\* followed by nothing but white space.
JSONparse(text) ==
    LET r == ValueAt(text, 1)
    IN IF r.ok /\ SkipWhiteSpace(text, r.pos) > Len(text)
       THEN [ok |-> TRUE, v |-> r.v]
       ELSE [ok |-> FALSE, v |-> Undefined]

\* parseQueryParameters() with the raw value raw of the parameter 'data' in
\* window.location.search, Null without the parameter: every exception is
\* caught and gives null
parseQueryParameters(raw) ==
    LET data == QueryGet(raw)
        binaryString == atob(RestorePlus(data))
        decodedString == TextDecode(binaryString.bytes)
    IN IF data = Null \/ data = <<>> THEN JNull
       ELSE IF ~binaryString.ok THEN JNull
       ELSE IF ~JSONparse(decodedString).ok THEN JNull
       ELSE JSONparse(decodedString).v

\* the timer callback of initializeForm reads the payload
ParseQuery ==
    /\ pc = "parse"
    /\ queryData' = parseQueryParameters(search)
    /\ pc' = "parsed"
    /\ UNCHANGED <<document, jotformDoc, variant, search, allFields,
                   formGroups, index, keyPos, raised>>
    /\ UNCHANGED <<scripts, scriptPos, log, calls>>

\* the longest text of bytes taken in every combination
MaxBytes == 3

\* the bytes of  " 1 [ ] a  and of the space, the two bytes of U+00E9, and
\* 0xFF, which no UTF-8 sequence holds
ByteAlphabet == {34, 49, 91, 93, 97, 32, 195, 169, 255}

ByteTexts == UNION {[1..n -> ByteAlphabet] : n \in 0..MaxBytes}

\* longer texts:  null  true  {"a":1}  {"a":1,"a":[]}  [1,"a"]  -0  1.5
\* ">" after a space,  1 after a byte order mark,  "\n"  "A"
\* "a  and  [1,]
SampleTexts ==
    {<<110, 117, 108, 108>>,
     <<116, 114, 117, 101>>,
     <<123, 34, 97, 34, 58, 49, 125>>,
     <<123, 34, 97, 34, 58, 49, 44, 34, 97, 34, 58, 91, 93, 125>>,
     <<91, 49, 44, 34, 97, 34, 93>>,
     <<45, 48>>,
     <<49, 46, 53>>,
     <<32, 34, 62, 34>>,
     <<239, 187, 191, 49>>,
     <<34, 92, 110, 34>>,
     <<34, 92, 117, 48, 48, 52, 49, 34>>,
     <<34, 97, 32, 32>>,
     <<91, 49, 44, 93, 32>>}

\* the k-th six bits of a text of bytes, filled up with zero bits
SextetOf(bytes, k) ==
    LET base == ((k - 1) \div 4) * 3
        b(i) == IF base + i <= Len(bytes) THEN bytes[base + i] ELSE 0
    IN CASE (k - 1) % 4 = 0 -> b(1) \div 4
         [] (k - 1) % 4 = 1 -> (b(1) % 4) * 16 + b(2) \div 16
         [] (k - 1) % 4 = 2 -> (b(2) % 16) * 4 + b(3) \div 64
         [] OTHER -> b(3) % 64

\* the base64 encoding of a text of bytes, padded with '='
Base64Encode(bytes) ==
    LET n == Len(bytes)
        used == (n \div 3) * 4 + (IF n % 3 = 0 THEN 0 ELSE (n % 3) + 1)
    IN [k \in 1..((n + 2) \div 3) * 4 |->
           IF k <= used THEN Base64Chars[SextetOf(bytes, k) + 1] ELSE "="]

\* the values of the parameter: of every text its encoding, the encoding
\* without padding, without its last character and with a character that
\* is not of base64 after it; and no parameter at all
Queries ==
    {Null} \cup
    UNION {{Base64Encode(b),
            WithoutPadding(Base64Encode(b)),
            SubSeq(Base64Encode(b), 1, Len(Base64Encode(b)) - 1),
            Append(Base64Encode(b), "@")} : b \in ByteTexts \cup SampleTexts}

ParseInit ==
    /\ jotformDoc = Page(<<"standard">>)
    /\ document = jotformDoc
    /\ variant \in Variants
    /\ search \in Queries
    /\ queryData = Undefined
    /\ allFields = <<>>
    /\ formGroups = <<>>
    /\ index = 0
    /\ keyPos = 0
    /\ raised = FALSE
    /\ pc = "parse"
    /\ ScriptsRun

ParseSpec == ParseInit /\ [][ParseQuery]_vars

(***************************************************************************)
(* getJotformStructure on pages of every shape                             *)
(***************************************************************************)

\* the longest page
MaxNodes == 5

\* the nodes of the pages: a section header, a labelled field, a list item
\* without id and data-type, an element that is no section list item, and
\* the submit block inside a section and outside the sections
NodeKinds == {"header", "field", "bare", "outside", "button", "submit"}

\* the node of a kind at position k of a page
NodeOf(kind, k) ==
    CASE kind = "header" -> Header(k, SectionTitle)
      [] kind = "field" ->
             Li(NodeId(k, "1"), "control_textbox", NoteLabel, Null, <<>>)
      [] kind = "bare" -> Li(<<>>, "", Null, Null, <<>>)
      [] kind = "outside" ->
             [Li(NodeId(k, "3"), "control_text", Null, Null, <<>>)
                 EXCEPT !.li = FALSE]
      [] kind = "button" -> [SubmitBlock EXCEPT !.li = TRUE]
      [] OTHER -> SubmitBlock

StructurePages ==
    {[k \in 1..Len(kinds) |-> NodeOf(kinds[k], k)] :
        kinds \in SeqsUpTo(NodeKinds, MaxNodes)}

StructureInit ==
    /\ jotformDoc \in StructurePages
    /\ document = jotformDoc
    /\ variant \in Variants
    /\ search = <<>>
    /\ queryData = JNull
    /\ allFields = <<>>
    /\ formGroups = <<>>
    /\ index = 0
    /\ keyPos = 0
    /\ raised = FALSE
    /\ pc = "structure"
    /\ ScriptsRun

StructureSpec == StructureInit /\ [][GetStructure]_vars

(***************************************************************************)
(* initializeForm (main.ts:61-107): the page is fetched and injected, its  *)
(* scripts run one after the other, then a timer starts the timer callback *)
(***************************************************************************)

\* the most script elements of jotform.html
MaxScripts == 3

\* a script element: src and defer are its attributes, text says whether it
\* has text content, fails whether its load ends in an error event or its
\* text throws
ScriptKinds ==
    {[src |-> TRUE, defer |-> FALSE, text |-> FALSE, fails |-> FALSE],
     [src |-> TRUE, defer |-> FALSE, text |-> FALSE, fails |-> TRUE],
     [src |-> TRUE, defer |-> TRUE, text |-> FALSE, fails |-> FALSE],
     [src |-> TRUE, defer |-> TRUE, text |-> FALSE, fails |-> TRUE],
     [src |-> FALSE, defer |-> FALSE, text |-> TRUE, fails |-> FALSE],
     [src |-> FALSE, defer |-> FALSE, text |-> TRUE, fails |-> TRUE],
     [src |-> TRUE, defer |-> TRUE, text |-> TRUE, fails |-> FALSE],
     [src |-> FALSE, defer |-> FALSE, text |-> FALSE, fails |-> FALSE]}

\* document.querySelector('form.jotform-form'): the list items of the page
\* lie in the form, a page without nodes has none
HasForm(doc) == doc # <<>>

\* the entry of log for the script at position i: kind is "load" for
\* loadExternalScript and "exec" for executeInlineScript
Event(i, kind) == [script |-> i, kind |-> kind, ok |-> ~scripts[i].fails]

\* AfterLoad with the rejection of loadExternalScript not caught
AfterLoadUncaught(loop, ok) == IF ok THEN loop ELSE "aborted"

\* where initializeForm stands after the await of loadExternalScript in the
\* loop loop: a rejection is caught and logged (main.ts:38-42, 49-53)
AfterLoad(loop, ok) == loop

\* fetch, DOMParser and the injection into #jotform-container; a failed
\* fetch and a missing container end initializeForm in its catch
FetchPage ==
    /\ pc = "boot"
    /\ \E ok \in BOOLEAN :
          /\ document' = IF ok THEN jotformDoc ELSE document
          /\ pc' = IF ok THEN "scripts" ELSE "aborted"
    /\ UNCHANGED <<jotformDoc, variant, search, queryData, allFields,
                   formGroups, index, keyPos, raised, scripts, scriptPos,
                   log, calls>>

\* one round of the first loop of executeScriptsSequentially: an external
\* script without defer is appended and awaited, the text of any other
\* script is executed, an exception of it caught (main.ts:22-28)
RunScript ==
    /\ pc = "scripts"
    /\ scriptPos < Len(scripts)
    /\ IF scripts[scriptPos + 1].src /\ ~scripts[scriptPos + 1].defer
       THEN pc' = "loading" /\ UNCHANGED <<scriptPos, log>>
       ELSE /\ pc' = "scripts"
            /\ scriptPos' = scriptPos + 1
            /\ log' = IF scripts[scriptPos + 1].text
                      THEN Append(log, Event(scriptPos + 1, "exec"))
                      ELSE log
    /\ UNCHANGED <<document, jotformDoc, variant, search, queryData,
                   allFields, formGroups, index, keyPos, raised, scripts,
                   calls>>

\* onload or onerror of the script the first loop awaits
ScriptSettled ==
    /\ pc = "loading"
    /\ log' = Append(log, Event(scriptPos + 1, "load"))
    /\ scriptPos' = scriptPos + 1
    /\ pc' = AfterLoad("scripts", ~scripts[scriptPos + 1].fails)
    /\ UNCHANGED <<document, jotformDoc, variant, search, queryData,
                   allFields, formGroups, index, keyPos, raised, scripts,
                   calls>>

\* the first loop ends, the second starts
EndFirstLoop ==
    /\ pc = "scripts"
    /\ scriptPos = Len(scripts)
    /\ pc' = "deferred"
    /\ scriptPos' = 0
    /\ UNCHANGED <<document, jotformDoc, variant, search, queryData,
                   allFields, formGroups, index, keyPos, raised, scripts,
                   log, calls>>

\* one round of the second loop: an external script with defer is appended
\* and awaited
RunDeferred ==
    /\ pc = "deferred"
    /\ scriptPos < Len(scripts)
    /\ IF scripts[scriptPos + 1].src /\ scripts[scriptPos + 1].defer
       THEN pc' = "loadingDeferred" /\ UNCHANGED scriptPos
       ELSE pc' = "deferred" /\ scriptPos' = scriptPos + 1
    /\ UNCHANGED <<document, jotformDoc, variant, search, queryData,
                   allFields, formGroups, index, keyPos, raised, scripts,
                   log, calls>>

\* onload or onerror of the script the second loop awaits
DeferredSettled ==
    /\ pc = "loadingDeferred"
    /\ log' = Append(log, Event(scriptPos + 1, "load"))
    /\ scriptPos' = scriptPos + 1
    /\ pc' = AfterLoad("deferred", ~scripts[scriptPos + 1].fails)
    /\ UNCHANGED <<document, jotformDoc, variant, search, queryData,
                   allFields, formGroups, index, keyPos, raised, scripts,
                   calls>>

\* executeScriptsSequentially returns, setTimeout(..., 200)
SetTimer ==
    /\ pc = "deferred"
    /\ scriptPos = Len(scripts)
    /\ pc' = "timer"
    /\ UNCHANGED <<document, jotformDoc, variant, search, queryData,
                   allFields, formGroups, index, keyPos, raised, scripts,
                   scriptPos, log, calls>>

\* the timer fires: with a form on the page the payload is read, and the
\* callback goes on to getJotformStructure and applyDataToForm
TimerCallback ==
    /\ pc = "timer"
    /\ queryData' = IF HasForm(document)
                    THEN parseQueryParameters(search) ELSE queryData
    /\ pc' = IF HasForm(document) THEN "structure" ELSE "idle"
    /\ UNCHANGED <<document, jotformDoc, variant, search, allFields,
                   formGroups, index, keyPos, raised, scripts, scriptPos,
                   log, calls>>

\* the code of a printable ASCII character
CodeOf(c) == 31 + First({k \in 1..95 : Ascii[k] = c})

\* [{"headerText":"New","fields":{"a":"1"}}]
BootRecords ==
    <<"[", "{", "\"", "h", "e", "a", "d", "e", "r", "T", "e", "x", "t", "\"",
      ":", "\"", "N", "e", "w", "\"", ",", "\"", "f", "i", "e", "l", "d", "s",
      "\"", ":", "{", "\"", "a", "\"", ":", "\"", "1", "\"", "}", "}", "]">>

\* the payload text a revision takes: the records, or {"groups": records}
BootText(v) ==
    IF v = "part_000"
    THEN <<"{", "\"", "g", "r", "o", "u", "p", "s", "\"", ":">>
             \o BootRecords \o <<"}">>
    ELSE BootRecords

\* the value of the parameter 'data' that carries that text
BootQuery(v) ==
    Base64Encode([i \in 1..Len(BootText(v)) |-> CodeOf(BootText(v)[i])])

\* DOMContentLoaded: jotform.html is the form page of one section or a page
\* without form, with any scripts
BootInit ==
    /\ jotformDoc \in {Page(<<"standard">>), <<>>}
    /\ document = <<>>
    /\ variant \in Variants
    /\ search = BootQuery(variant)
    /\ queryData = Undefined
    /\ allFields = <<>>
    /\ formGroups = <<>>
    /\ index = 0
    /\ keyPos = 0
    /\ raised = FALSE
    /\ pc = "boot"
    /\ scripts \in SeqsUpTo(ScriptKinds, MaxScripts)
    /\ scriptPos = 0
    /\ log = <<>>
    /\ calls = [structure |-> 0, apply |-> 0]

BootNext ==
    \/ FetchPage \/ RunScript \/ ScriptSettled \/ EndFirstLoop
    \/ RunDeferred \/ DeferredSettled \/ SetTimer \/ TimerCallback
    \/ GetStructure \/ ApplyBegin \/ EnterGroup \/ ApplyField \/ ApplyReturn

\* the timer callback goes on from a position at which it stands: this is
\* what TimerCallback, GetStructure and ApplyBegin are enabled at, each at
\* its own position, stated without their effects
CallbackProceeds ==
    /\ pc \in {"timer", "structure", "apply"}
    /\ pc' = "groups"
    /\ UNCHANGED <<document, jotformDoc, variant, search, queryData,
                   allFields, formGroups, index, keyPos, raised, scripts,
                   scriptPos, log, calls>>

\* every load settles with onload or onerror, the timer fires, and code
\* that runs goes on running
BootSpec ==
    /\ BootInit
    /\ [][BootNext]_vars
    /\ WF_vars(FetchPage \/ RunScript \/ ScriptSettled \/ EndFirstLoop
                   \/ RunDeferred \/ DeferredSettled \/ SetTimer
                   \/ CallbackProceeds)

(***************************************************************************)
(* Properties of applyDataToForm                                           *)
(***************************************************************************)

\* the choice items of a node, in document order
ChoiceItems(el) == SelectSeq(el.ctls, LAMBDA c : c.item)

\* the ids of the inputs of the choice items of a node
ChoiceIds(el) == [k \in 1..Len(ChoiceItems(el)) |-> ChoiceItems(el)[k].id]

\* a node without the choice items whose inputs have the ids in drop
WithoutChoices(el, drop) ==
    [el EXCEPT !.ctls = SelectSeq(@, LAMBDA c : ~(c.item /\ c.id \in drop))]

\* the groups of the page, known once the structure is read
GroupIndices == 1..Len(formGroups)

\* the first member of the g-th group labelled 'リクエスト内容', 0 without one
RequestMember(g) ==
    LET members == formGroups[g].childFields
        hits == {i \in 1..Len(members) : members[i].text = RequestContent}
    IN IF hits = {} THEN 0 ELSE CHOOSE i \in hits : \A j \in hits : i <= j

\* the node of the page that member is, 0 when the group has none or its
\* list item has no id
RequestNode(g) ==
    IF RequestMember(g) = 0 THEN 0
    ELSE IF formGroups[g].childFields[RequestMember(g)].id = <<>> THEN 0
    ELSE NodeById(jotformDoc, formGroups[g].childFields[RequestMember(g)].id)

\* the nodes of the page that are the header and the members of the g-th
\* group
GroupNodes(g) ==
    {n \in 1..Len(jotformDoc) :
        /\ jotformDoc[n].id # <<>>
        /\ \/ jotformDoc[n].id = formGroups[g].collapseField.id
           \/ \E i \in 1..Len(formGroups[g].childFields) :
                  formGroups[g].childFields[i].id = jotformDoc[n].id}

\* the callback has run branch reduction on the g-th group
Reduced(g) == g <= index \/ (g = index + 1 /\ pc \in {"fields", "failed"})

\* the aligned payload entry of the g-th group exists
HasEntry(g) == Truthy(GroupData(variant, queryData, g - 1))

\* C1: a failure while a group is processed does not abort the pass: no
\* exception reaches the caller, and the pass ends only after the callback
\* has run on every group.
C1_FailureDoesNotAbort ==
    /\ ~raised
    /\ pc \in {"done", "failed"} => index = Len(formGroups)

\* C2 as stated: after applyDataToForm(groups, null) every group with a
\* member labelled 'リクエスト内容' has lost the choice items at positions 0
\* and 1 and nothing else of the page has changed.
C2_NullPayloadReducesEveryGroup ==
    (queryData = JNull /\ pc = "done") =>
        /\ \A g \in GroupIndices :
              RequestMember(g) # 0 =>
                  /\ RequestNode(g) # 0
                  /\ Len(ChoiceIds(jotformDoc[RequestNode(g)])) >= 2
                  /\ document[RequestNode(g)] =
                         WithoutChoices(jotformDoc[RequestNode(g)],
                             {ChoiceIds(jotformDoc[RequestNode(g)])[1],
                              ChoiceIds(jotformDoc[RequestNode(g)])[2]})
        /\ \A n \in 1..Len(document) :
              (\A g \in GroupIndices : RequestNode(g) # n) =>
                  document[n] = jotformDoc[n]

\* the page after branch reduction without payload: the request-content
\* fields that have an id and at least MinChoiceItems choice items have lost
\* the first two of them, every other node is as it was
NullPayloadPage ==
    [n \in 1..Len(jotformDoc) |->
        IF /\ \E g \in GroupIndices : RequestNode(g) = n
           /\ Len(ChoiceIds(jotformDoc[n])) >= MinChoiceItems
        THEN WithoutChoices(jotformDoc[n],
                 {ChoiceIds(jotformDoc[n])[1], ChoiceIds(jotformDoc[n])[2]})
        ELSE jotformDoc[n]]

\* C2 amended: after applyDataToForm(groups, null) every request-content
\* field that has an id and at least four choice items has lost the items at
\* positions 0 and 1 and keeps the later ones in order (the last two of
\* four); a field with fewer items or without an id has lost none; no header
\* text, value or checked state has changed.
C2_NullPayloadReduction ==
    (queryData = JNull /\ pc = "done") => document = NullPayloadPage

\* C2 witness: the pass without payload has ended on a page where one
\* request-content field of four items is left with its last two and
\* another of three items is left whole
C2_Witness ==
    /\ queryData = JNull /\ pc = "done"
    /\ \E g, h \in GroupIndices :
          /\ RequestNode(g) # 0 /\ RequestNode(h) # 0
          /\ Len(ChoiceIds(jotformDoc[RequestNode(g)])) = 4
          /\ ChoiceIds(document[RequestNode(g)]) =
                 SubSeq(ChoiceIds(jotformDoc[RequestNode(g)]), 3, 4)
          /\ Len(ChoiceIds(document[RequestNode(h)])) = 3

\* C3: once branch reduction has run on a request-content field of exactly
\* four choice items, the items left are those originally at indices 0 and
\* 1 when the aligned payload entry exists and those originally at indices
\* 2 and 3 when it does not, in their original order.
C3_BranchReductionOfFour ==
    \A g \in GroupIndices :
        (/\ Reduced(g)
         /\ RequestNode(g) # 0
         /\ Len(ChoiceIds(jotformDoc[RequestNode(g)])) = 4) =>
            ChoiceIds(document[RequestNode(g)]) =
                IF HasEntry(g)
                THEN SubSeq(ChoiceIds(jotformDoc[RequestNode(g)]), 1, 2)
                ELSE SubSeq(ChoiceIds(jotformDoc[RequestNode(g)]), 3, 4)

\* C3 witness: the pass has ended on a page with two request-content fields
\* of four items, one with an aligned entry and left with its first two
\* items, one without and left with its last two
C3_Witness ==
    /\ pc = "done"
    /\ \E g, h \in GroupIndices :
          /\ RequestNode(g) # 0 /\ RequestNode(h) # 0
          /\ HasEntry(g) /\ ~HasEntry(h)
          /\ Len(ChoiceIds(jotformDoc[RequestNode(g)])) = 4
          /\ Len(ChoiceIds(jotformDoc[RequestNode(h)])) = 4
          /\ ChoiceIds(document[RequestNode(g)]) =
                 SubSeq(ChoiceIds(jotformDoc[RequestNode(g)]), 1, 2)
          /\ ChoiceIds(document[RequestNode(h)]) =
                 SubSeq(ChoiceIds(jotformDoc[RequestNode(h)]), 3, 4)

\* the decoded payload of the end-to-end scenario:
\* {"groups":[{"headerText":"Changed",
\*             "fields":{"リクエスト内容":"x","対象月":"5"}}]}
ScenarioPayload == JObj(<<[k |-> GroupsKey, v |-> JArr(<<ScenarioEntry>>)]>>)

\* C8: applyDataToForm with the scenario payload on the page of one
\* standard section ends with the 対象月 select at "5", the header text
\* "Changed", and the request-content field left with exactly its first two
\* choice items, their values and checked states as they were.
C8_EndToEnd ==
    (/\ jotformDoc = Page(<<"standard">>)
     /\ queryData = ScenarioPayload
     /\ pc \in {"done", "failed"}) =>
        /\ pc = "done"
        /\ document[NodeById(document, NodeId(1, "2"))].ctls[1].value = <<"5">>
        /\ document[NodeById(document, NodeId(1, "0"))].mid
               = <<"C", "h", "a", "n", "g", "e", "d">>
        /\ ChoiceItems(document[NodeById(document, NodeId(1, "1"))])
               = SubSeq(ChoiceItems(
                     jotformDoc[NodeById(jotformDoc, NodeId(1, "1"))]), 1, 2)

\* the g-th group has a member labelled 'リクエスト内容'
HasRequestMember(g) == RequestMember(g) # 0

\* the aligned entry of the g-th group carries a header override and a key
\* that matches one of the group's members
HasOverrides(g) ==
    LET entry == GroupData(variant, queryData, g - 1)
    IN /\ Truthy(entry)
       /\ Truthy(Prop(entry, HeaderTextKey))
       /\ \E k \in 1..Len(Keys(Prop(entry, FieldsKey))) :
              \E i \in 1..Len(formGroups[g].childFields) :
                  formGroups[g].childFields[i].text
                      = Keys(Prop(entry, FieldsKey))[k]

\* the header text of the g-th group on a page
HeaderText(doc, g) == doc[NodeById(doc, formGroups[g].collapseField.id)].mid

IsSkipped(g) == RequestNode(g) = 0

CurrentFields == Prop(GroupData(variant, queryData, index), FieldsKey)

CurrentKey == Keys(CurrentFields)[keyPos]

CurrentValue == Prop(CurrentFields, CurrentKey)

\* the member the key of the round is matched to, 0 when the key is
\* 'リクエスト内容' or matches none
MatchedMember ==
    IF CurrentKey = RequestContent THEN 0
    ELSE TargetField(formGroups[index + 1].childFields, CurrentKey)

\* the node of the matched member, 0 without one
MatchedNode ==
    IF MatchedMember = 0 THEN 0
    ELSE IF formGroups[index + 1].childFields[MatchedMember].id = <<>> THEN 0
    ELSE NodeById(document,
                  formGroups[index + 1].childFields[MatchedMember].id)

\* the round applies a string to a control_datetime field
DateRound ==
    /\ pc = "fields"
    /\ MatchedNode # 0
    /\ formGroups[index + 1].childFields[MatchedMember].type
           = "control_datetime"
    /\ CurrentValue.t = "str"

\* the inputs of a node whose id starts with prefix, whose name ends in
\* suffix
InputsWithIdPrefix(el, prefix) ==
    {c \in 1..Len(el.ctls) :
        el.ctls[c].tag = "input" /\ IsPrefix(prefix, el.ctls[c].id)}

InputsWithNameSuffix(el, suffix) ==
    {c \in 1..Len(el.ctls) :
        el.ctls[c].tag = "input" /\ IsSuffix(suffix, el.ctls[c].name)}

DateSuffixes == <<YearSuffix, MonthSuffix, DaySuffix>>

\* the number of '-' in a string: one less than the number of parts
Dashes(str) == Cardinality({i \in 1..Len(str) : str[i] = "-"})

\* the round writes the string str to the matched control_datetime field:
\* the visible input (id prefixed lite_mode_), when present, receives str;
\* when str splits on '-' into exactly three parts each hidden [year],
\* [month], [day] input that is present receives its part verbatim;
\* otherwise the hidden inputs keep their values; nothing is raised
DateWritten(str) ==
    LET old == document[MatchedNode]
        new == document'[MatchedNode]
    IN /\ ~raised'
       /\ Len(new.ctls) = Len(old.ctls)
       /\ \A c \in InputsWithIdPrefix(old, LiteModePrefix) :
              c = First(InputsWithIdPrefix(old, LiteModePrefix))
                  => new.ctls[c].value = str
       /\ \A p \in 1..3 :
              \A c \in InputsWithNameSuffix(old, DateSuffixes[p]) :
                  c = First(InputsWithNameSuffix(old, DateSuffixes[p]))
                      => new.ctls[c].value =
                             IF Dashes(str) = 2
                             THEN Split(str, "-")[p]
                             ELSE old.ctls[c].value

\* C6 as stated: when a string is applied to a matched control_datetime
\* field, the visible input, when present, receives the raw value, and the
\* hidden inputs are written exactly when the raw value splits on '-' into
\* three parts, each one present with its part.
C6_RawDateSplit == [][DateRound => DateWritten(CurrentValue.s)]_vars

\* the value of the round after the zero padding: a value of one character
\* under a key that is '時' or '分' once whitespace is removed has a 0 put
\* before it
ValueApplied ==
    IF StripWhitespace(CurrentKey) \in {<<"ji">>, <<"fun">>}
       /\ Len(CurrentValue.s) = 1
    THEN <<"0">> \o CurrentValue.s
    ELSE CurrentValue.s

\* C6 amended: when a string is applied to a matched control_datetime
\* field, the visible input, when present, receives the value after the
\* zero padding of the keys '時' and '分' (the raw value under every other
\* key and for every value of two characters or more), and the hidden
\* inputs are written exactly when that value splits on '-' into three
\* parts, each one present with its part verbatim, the others unchanged.
C6_DateSplit == [][DateRound => DateWritten(ValueApplied)]_vars

\* C6 witness: a date field without a hidden month input shows 2024-5-03
\* and holds 2024 and 03 in its hidden year and day inputs
C6_Witness ==
    \E n \in 1..Len(document) :
        /\ document[n].type = "control_datetime"
        /\ Len(document[n].ctls) = 3
        /\ document[n].ctls[1].value
               = <<"2", "0", "2", "4", "-", "5", "-", "0", "3">>
        /\ IsSuffix(YearSuffix, document[n].ctls[2].name)
        /\ document[n].ctls[2].value = <<"2", "0", "2", "4">>
        /\ IsSuffix(DaySuffix, document[n].ctls[3].name)
        /\ document[n].ctls[3].value = <<"0", "3">>

\* the round applies a value to a field whose first control is a radio,
\* and no input of that radio's name carries the value
UnmatchedRadioRound ==
    /\ pc = "fields"
    /\ MatchedNode # 0
    /\ formGroups[index + 1].childFields[MatchedMember].type
           # "control_datetime"
    /\ document[MatchedNode].ctls # <<>>
    /\ document[MatchedNode].ctls[1].tag = "input"
    /\ document[MatchedNode].ctls[1].type = "radio"
    /\ \A n \in 1..Len(document) : \A c \in 1..Len(document[n].ctls) :
           document[n].ctls[c].name = document[MatchedNode].ctls[1].name
               => document[n].ctls[c].value # ToStr(CurrentValue)

\* C7: applying to a field whose first input is a radio a value that no
\* input of that name carries checks no radio, changes no checked state and
\* raises no error.
C7_UnmatchedRadioValue ==
    [][UnmatchedRadioRound => (~raised' /\ document' = document)]_vars

(***************************************************************************)
(* Properties of getJotformStructure                                       *)
(***************************************************************************)

\* the positions of the 'control_collapse' fields in the flat list
HeaderPositions ==
    {k \in 1..Len(allFields) : allFields[k].type = "control_collapse"}

RECURSIVE Flattened(_)
\* collapseField followed by childFields, over the groups in order
Flattened(groups) ==
    IF groups = <<>> THEN <<>>
    ELSE <<Head(groups).collapseField>> \o Head(groups).childFields
             \o Flattened(Tail(groups))

\* C4: groupFields gives no more groups than the flat list has
\* 'control_collapse' fields, and collapseField followed by childFields over
\* the groups in order is the flat list from its first 'control_collapse'
\* field on; the fields before it are in no group.
C4_GroupsPartitionFields ==
    pc = "apply" =>
        /\ Len(formGroups) <= Cardinality(HeaderPositions)
        /\ Flattened(formGroups) =
               IF HeaderPositions = {} THEN <<>>
               ELSE SubSeq(allFields, First(HeaderPositions), Len(allFields))

\* C4 witness: a list that starts with a field that is no header is grouped
\* into two groups or more, the first of them with a member
C4_Witness ==
    /\ pc = "apply"
    /\ allFields # <<>>
    /\ allFields[1].type # "control_collapse"
    /\ Len(formGroups) >= 2
    /\ formGroups[1].childFields # <<>>

\* the number of candidate elements of the page: the section list items,
\* and #id_2 when it exists and is none of them
Candidates ==
    Cardinality(SectionItems(document))
        + (IF /\ \E i \in 1..Len(document) : document[i].id = ButtonId
              /\ NodeById(document, ButtonId) \notin SectionItems(document)
           THEN 1 ELSE 0)

\* C5: the order values of the fields extractFieldsFromDOM returns are
\* 1, 2, ..., n in list order, n the number of candidate elements.
C5_OrderIsPosition ==
    pc = "apply" =>
        /\ Len(allFields) = Candidates
        /\ \A k \in 1..Len(allFields) : allFields[k].order = k

\* C5 witness: a page with an element that is no candidate, two section
\* list items or more, and the submit block outside the sections, which
\* comes last in the list
C5_Witness ==
    /\ pc = "apply"
    /\ Len(allFields) >= 3
    /\ Len(allFields) < Len(document)
    /\ NodeById(document, ButtonId) \notin SectionItems(document)
    /\ allFields[Len(allFields)].id = ButtonId
    /\ allFields[Len(allFields)].order = Len(allFields)


(***************************************************************************)
(* Properties of parseQueryParameters                                      *)
(***************************************************************************)

RECURSIVE WellFormedFrom(_, _)
\* the bytes from position i on are well-formed UTF-8 byte sequences
WellFormedFrom(b, i) ==
    \/ i > Len(b)
    \/ /\ b[i] <= 127
       /\ WellFormedFrom(b, i + 1)
    \/ /\ b[i] \in 194..223
       /\ i + 1 <= Len(b) /\ b[i + 1] \in 128..191
       /\ WellFormedFrom(b, i + 2)
    \/ /\ i + 2 <= Len(b)
       /\ \/ b[i] = 224 /\ b[i + 1] \in 160..191
          \/ b[i] \in (225..236) \cup (238..239) /\ b[i + 1] \in 128..191
          \/ b[i] = 237 /\ b[i + 1] \in 128..159
       /\ b[i + 2] \in 128..191
       /\ WellFormedFrom(b, i + 3)
    \/ /\ i + 3 <= Len(b)
       /\ \/ b[i] = 240 /\ b[i + 1] \in 144..191
          \/ b[i] \in 241..243 /\ b[i + 1] \in 128..191
          \/ b[i] = 244 /\ b[i + 1] \in 128..143
       /\ b[i + 2] \in 128..191 /\ b[i + 3] \in 128..191
       /\ WellFormedFrom(b, i + 4)

\* the parameter 'data' is absent
ParameterAbsent == search = Null

\* the content of the parameter is not valid base64
InvalidBase64 == ~atob(RestorePlus(QueryGet(search))).ok

\* the bytes decoded from the parameter are not valid UTF-8
InvalidUtf8 ==
    ~WellFormedFrom(atob(RestorePlus(QueryGet(search))).bytes, 1)

\* the text decoded from the parameter is not valid JSON
InvalidJson ==
    ~JSONparse(TextDecode(atob(RestorePlus(QueryGet(search))).bytes)).ok

\* C9: parseQueryParameters returns null and raises nothing when the
\* parameter 'data' is absent, when its content is not valid base64, when
\* the decoded bytes are not valid UTF-8 and when the decoded text is not
\* valid JSON.
C9_NullOnEveryFailure ==
    (/\ pc = "parsed"
     /\ \/ ParameterAbsent
        \/ InvalidBase64
        \/ InvalidUtf8
        \/ InvalidJson) => (queryData = JNull /\ ~raised)

(***************************************************************************)
(* Properties of the alignment of groups and payload entries               *)
(***************************************************************************)

\* the ordered list of group records of the payload, as the revision takes
\* it: the array itself for form-modifier.ts, the array under 'groups' for
\* part_000; empty for null and for a payload of another shape
EntryList ==
    IF variant = "part_000"
    THEN (IF /\ queryData.t = "obj"
             /\ \E k \in 1..Len(queryData.kids) :
                    /\ queryData.kids[k].k = GroupsKey
                    /\ queryData.kids[k].v.t = "arr"
          THEN queryData.kids[CHOOSE k \in 1..Len(queryData.kids) :
                                 queryData.kids[k].k = GroupsKey].v.kids
          ELSE <<>>)
    ELSE (IF queryData.t = "arr" THEN queryData.kids ELSE <<>>)

\* the payload entry at the position of the g-th group, Undefined when the
\* list ends before it or holds null there
EntryOf(g) ==
    IF g <= Len(EntryList) /\ EntryList[g].t = "obj"
    THEN EntryList[g] ELSE Undefined

\* C11: the callback on group i does to the page what branch reduction,
\* header override and field application do with the payload entry at
\* position i and no other, whether or not earlier groups were skipped; a
\* group without an entry at its position is treated as having none; and
\* after the last group the pass ends without a mutation, however many
\* entries the payload holds.
C11_AlignedByPosition ==
    [][/\ (pc = "groups" /\ index < Len(formGroups)) =>
              document' = BeginGroup(document, formGroups[index + 1],
                                     EntryOf(index + 1)).doc
       /\ pc = "fields" =>
              /\ EntryOf(index + 1) # Undefined
              /\ document' = ApplyNthKey(document, formGroups[index + 1],
                                         EntryOf(index + 1), keyPos).doc
       /\ (pc = "groups" /\ index = Len(formGroups)) =>
              (document' = document /\ pc' = "done")]_vars

\* C11 witness: the pass has ended on a page whose first group was skipped
\* and whose second group carries the header text of the second entry,
\* which is not that of the first
C11_Witness ==
    /\ pc = "done"
    /\ Len(formGroups) = 2
    /\ IsSkipped(1) /\ ~IsSkipped(2)
    /\ EntryOf(1) # Undefined /\ EntryOf(2) # Undefined
    /\ Prop(EntryOf(1), HeaderTextKey) # Prop(EntryOf(2), HeaderTextKey)
    /\ HeaderText(document, 2) = ToStr(Prop(EntryOf(2), HeaderTextKey))
    /\ HeaderText(document, 2) # HeaderText(jotformDoc, 2)

(***************************************************************************)
(* Properties of key-to-field resolution                                   *)
(***************************************************************************)

\* the members of the group of the round that the key of the round
\* matches: for 'timeOption' those whose label is null, otherwise those
\* whose label without whitespace is the key without whitespace
MatchingMembers ==
    {i \in 1..Len(formGroups[index + 1].childFields) :
        IF CurrentKey = TimeOptionKey
        THEN formGroups[index + 1].childFields[i].text = Null
        ELSE /\ formGroups[index + 1].childFields[i].text # Null
             /\ StripWhitespace(formGroups[index + 1].childFields[i].text)
                    = StripWhitespace(CurrentKey)}

\* C12: a round of the loop over the keys changes no node of the page but
\* the one of the first member, in member order, that the key matches;
\* members after it are not changed, and when no member matches nothing is
\* changed.
C12_FirstMatchOnly ==
    [][pc = "fields" =>
          \A n \in 1..Len(document) :
              document'[n] # document[n] =>
                  /\ MatchingMembers # {}
                  /\ document[n].id =
                         formGroups[index + 1]
                             .childFields[First(MatchingMembers)].id]_vars

\* C12 witness: of a dropdown labelled '対象 月' and a text box after it
\* labelled '対象月', the dropdown has taken the value of the key '対象月'
\* and the text box is as it was
C12_Witness ==
    \E n \in 1..Len(document) : \E m \in 1..Len(document) :
        /\ n < m
        /\ document[n].label = SpacedMonthLabel
        /\ document[n].ctls[1].value = <<"5">>
        /\ jotformDoc[n].ctls[1].value # <<"5">>
        /\ document[m].label = MonthLabel
        /\ document[m] = jotformDoc[m]

(***************************************************************************)
(* Properties of branch reduction on four choice items or more             *)
(***************************************************************************)

\* the ids of the choice items the g-th group's request-content field had
\* when the page was read
OriginalChoices(g) == ChoiceIds(jotformDoc[RequestNode(g)])

\* C13 as stated: once branch reduction has run on a request-content field
\* of four choice items or more, exactly two are left: the first two
\* original items when the aligned payload entry exists, the last two when
\* it does not.
C13_TwoItemsRemain ==
    \A g \in GroupIndices :
        (/\ Reduced(g)
         /\ RequestNode(g) # 0
         /\ Len(OriginalChoices(g)) >= 4) =>
            ChoiceIds(document[RequestNode(g)]) =
                IF HasEntry(g)
                THEN SubSeq(OriginalChoices(g), 1, 2)
                ELSE SubSeq(OriginalChoices(g),
                            Len(OriginalChoices(g)) - 1,
                            Len(OriginalChoices(g)))

\* C13 amended: once branch reduction has run on a request-content field
\* that has an id and n >= 4 choice items, n - 2 are left in their original
\* order: all but those originally at indices 2 and 3 when the aligned
\* payload entry exists, all but those originally at indices 0 and 1 when
\* it does not.
C13_AllButTwoRemain ==
    \A g \in GroupIndices :
        (/\ Reduced(g)
         /\ RequestNode(g) # 0
         /\ Len(OriginalChoices(g)) >= 4) =>
            ChoiceIds(document[RequestNode(g)]) =
                IF HasEntry(g)
                THEN SubSeq(OriginalChoices(g), 1, 2)
                         \o SubSeq(OriginalChoices(g), 5,
                                   Len(OriginalChoices(g)))
                ELSE SubSeq(OriginalChoices(g), 3, Len(OriginalChoices(g)))

\* C13 witness: the pass has ended on a page with two request-content
\* fields of more than four items, one with an aligned entry and left with
\* all but its third and fourth item, one without and left with all but its
\* first two
C13_Witness ==
    /\ pc = "done"
    /\ \E g, h \in GroupIndices :
          /\ RequestNode(g) # 0 /\ RequestNode(h) # 0
          /\ HasEntry(g) /\ ~HasEntry(h)
          /\ Len(OriginalChoices(g)) > 4 /\ Len(OriginalChoices(h)) > 4
          /\ Len(ChoiceIds(document[RequestNode(g)]))
                 = Len(OriginalChoices(g)) - 2
          /\ ChoiceIds(document[RequestNode(g)])[3] = OriginalChoices(g)[5]
          /\ Len(ChoiceIds(document[RequestNode(h)]))
                 = Len(OriginalChoices(h)) - 2
          /\ ChoiceIds(document[RequestNode(h)])[1] = OriginalChoices(h)[3]

(***************************************************************************)
(* Properties of the bootstrap                                             *)
(***************************************************************************)

\* the entry of log at position k is the load of a deferred script
DeferredLoad(k) == log[k].kind = "load" /\ scripts[log[k].script].defer

\* the scripts ran one after the other in document order, the deferred
\* external scripts after all others
LogOrdered ==
    \A a \in 1..Len(log) : \A b \in 1..Len(log) :
        a < b =>
            /\ DeferredLoad(a) => DeferredLoad(b)
            /\ DeferredLoad(a) = DeferredLoad(b)
                   => log[a].script < log[b].script

\* every external script has been loaded, or has failed to, and the text of
\* every script without src has been executed
ScriptsFinished ==
    \A i \in 1..Len(scripts) :
        /\ scripts[i].src =>
               \E k \in 1..Len(log) :
                   log[k].script = i /\ log[k].kind = "load"
        /\ (~scripts[i].src /\ scripts[i].text) =>
               \E k \in 1..Len(log) :
                   log[k].script = i /\ log[k].kind = "exec"

\* C14: getJotformStructure and applyDataToForm are invoked at most once,
\* and not before every script has finished, the scripts without defer one
\* at a time in document order and then the deferred external scripts in
\* document order; and once the page is injected with its form, extraction
\* and reconciliation are invoked whichever scripts fail to load or throw.
C14_BootstrapOrder ==
    /\ [](/\ calls.structure <= 1 /\ calls.apply <= 1
          /\ LogOrdered
          /\ (calls.structure > 0 \/ calls.apply > 0) => ScriptsFinished)
    /\ (pc = "scripts" /\ HasForm(document))
           ~> (calls.structure = 1 /\ calls.apply = 1)

\* C14 witness: applyDataToForm has returned on a page of three scripts: a
\* deferred script that failed to load, a script whose text threw, and an
\* external script, loaded before the deferred one
C14_Witness ==
    /\ pc = "done"
    /\ calls = [structure |-> 1, apply |-> 1]
    /\ Len(scripts) = 3 /\ Len(log) = 3
    /\ scripts[1].defer /\ scripts[1].fails
    /\ ~scripts[2].src /\ scripts[2].fails
    /\ scripts[3].src /\ ~scripts[3].defer
    /\ log[1].script = 2 /\ ~log[1].ok
    /\ log[2].script = 3
    /\ log[3].script = 1 /\ ~log[3].ok

(***************************************************************************)
(* Properties of the request-content field under field value application   *)
(***************************************************************************)

\* C15: a round of the loop over the keys of the field overrides, whatever
\* the key, leaves every control of the request-content field of the group
\* of the round as it is: its value and its checked state.
C15_RequestFieldKept ==
    [][(pc = "fields" /\ RequestNode(index + 1) # 0) =>
          document'[RequestNode(index + 1)].ctls
              = document[RequestNode(index + 1)].ctls]_vars

====
